---- MODULE Spec2Model ----
(***************************************************************************)
(* State-machine model of the token price/liquidity services:              *)
(*   - the refresh scheduler of backend/services/tokenDataService.js       *)
(*     (price-API budget counter, priority list, rotation passes);         *)
(*   - the on-chain enrichment pipeline of the Backend2 data service       *)
(*     (updateTokenData, its in-flight flag, the WETH price cache, the     *)
(*     batched-read decoders, the authoritative-pool selection and the     *)
(*     GeckoData upsert).                                                  *)
(* JavaScript runs one callback at a time, so every action below is the    *)
(* code between two suspension points (await, timer, cron tick).           *)
(***************************************************************************)
EXTENDS Integers, Sequences, FiniteSets, TLC

----------------------------------------------------------------------------
(* Bounds of the model. *)

\* token addresses are 1..MaxTokens
MaxTokens == 3
\* market capitalisations reported by the price API are 1..MaxCap
MaxCap == 2
\* slots for passes of the scheduler in flight at once
MaxPasses == 2
\* the scheduler under concurrent passes (Spec): tokens the factories
\* create, market capitalisations the price API reports
SchedTokens == 2
SchedCap == 1
\* the scheduler under its fairness assumptions (LiveSpec): passes in
\* flight at once
LivePasses == 1
\* tokens per price-API call; BATCH_SIZE is 30 in tokenDataService.js:286,
\* scaled down so that a pass of several batches fits in MaxTokens tokens
BatchSize == 1
\* length of the priority list; PRIORITY_TOKEN_COUNT is 10 in
\* tokenDataService.js:42, scaled down so that priced tokens stay outside it
TopCount == 1
\* the enrichment pipeline (PipeSpec): Token documents it reads; tokens per
\* batch (BATCH_SIZE is 30 in geckoDataService.js:13, scaled down so that a
\* run has several batches); steps of the clock
PipeTokens == 2
PipeBatchSize == 1
PipeTicks == 1
\* the price oracle (OracleSpec): steps of the clock
OracleTicks == 5
\* the pool selection (SelectSpec): pools of a token
MaxPools == 3
\* the decoders (DecodeSpec): entities of a batch
MaxEntities == 2

----------------------------------------------------------------------------
(* Program constants. *)

\* tokenDataService.js:216  if (apiCallsThisMinute >= 30)
PRIORITY_CALL_LIMIT == 30
\* tokenDataService.js:266, 285, 307  28: the quota less a buffer of 2 calls
ROTATION_CALL_LIMIT == 28

Tokens == 1..MaxTokens
Passes == 1..MaxPasses

----------------------------------------------------------------------------
(* Generic helpers. *)

Min(a, b) == IF a < b THEN a ELSE b
Max(a, b) == IF a > b THEN a ELSE b
Abs(n) == IF n < 0 THEN 0 - n ELSE n
Range(s) == {s[k] : k \in 1..Len(s)}
SetMax(S) == IF S = {} THEN 0 ELSE CHOOSE m \in S : \A x \in S : x <= m

\* all orderings of the finite set S, as sequences without repetition
Perms(S) ==
  {s \in [1..Cardinality(S) -> S] : \A a, b \in 1..Cardinality(S) : a # b => s[a] # s[b]}

\* Array.prototype.slice(start, end) for start >= 0: a negative end counts
\* from the end of the array, an end past the array is clipped
JsSlice(s, start, end) ==
  LET n == Len(s)
      e == IF end < 0 THEN Max(n + end, 0) ELSE Min(end, n)
      b == Min(start, n)
  IN IF b >= e THEN <<>> ELSE SubSeq(s, b + 1, e)

\* cursor.limit(n) of the document store: 0 means no limit, a negative n
\* limits to |n| documents
MongoLimit(s, n) ==
  IF n = 0 THEN s ELSE SubSeq(s, 1, Min(Abs(n), Len(s)))

----------------------------------------------------------------------------
VARIABLES
  \* ---- refresh scheduler (tokenDataService.js)
  apiCallsThisMinute,  \* let apiCallsThisMinute
  topTokens,           \* let topTokens: sequence of addresses
  tokenColl,           \* Token collection: addresses in insertion order
  priceColl,           \* TokenPrice collection: address -> record
  pass,                \* the passes in flight, one record per slot
  booted,              \* initializeDataFetching has scheduled the cron jobs
  issued,              \* history: fetchPriceData calls since the last reset
  \* ---- WETH price oracle (geckoDataService.js, fetchWethPrice)
  now,                 \* the clock, Date.now(), in ms
  cachedWethPrice,     \* let cachedWethPrice (Null until a read succeeds)
  wethPriceLastUpdated,\* let wethPriceLastUpdated
  weth,                \* the fetchWethPrice call of each caller
  priceReadAt,         \* history: when the read of the cached price began
  \* ---- enrichment pipeline (geckoDataService.js)
  isUpdating,          \* let isUpdating
  startupTimer,        \* the setTimeout of initializeDataFetching is pending
  run,                 \* the updateTokenData runs, by what started them
  geckoColl,           \* GeckoData collection: documents in insertion order
  \* ---- the pure functions, applied to inputs drawn by Init
  poolList,            \* a token's pools, as enrichWithPoolData is given them
  mainPool,            \* the selection enrichWithPoolData makes among them
  callResults,         \* the results of an aggregate3 call
  decoded,             \* what getTokensBasicInfo / getPoolsData make of them
  \* ---- token discovery (tokenDataService.js, fetchAndStoreTokens)
  chainHead,           \* the number of the newest block of the chain
  scan                 \* the fetchAndStoreTokens call, and what it queried

schedVars == <<apiCallsThisMinute, topTokens, tokenColl, priceColl, pass, booted, issued>>
oracleVars == <<now, cachedWethPrice, wethPriceLastUpdated, weth, priceReadAt>>
pipeVars == <<isUpdating, startupTimer, run, geckoColl>>
pureVars == <<poolList, mainPool, callResults, decoded>>
scanVars == <<chainHead, scan>>

vars == <<schedVars, oracleVars, pipeVars, pureVars, scanVars>>

\* what no step of the refresh scheduler touches
nonSchedVars == <<oracleVars, pipeVars, pureVars, scanVars>>

----------------------------------------------------------------------------
(* The refresh scheduler: backend/services/tokenDataService.js *)

\* TokenPriceSchema, lines 3-19: the paths of the schema that the passes
\* write and the queries read. market_cap and priority are not among them
SchemaPaths == {"fdv_usd", "last_updated"}

\* a TokenPrice document (has: it is in the collection), with the paths of
\* the schema; last_updated is kept as the rank of its timestamp among the
\* timestamps in the state (the code only ever sorts by it)
NoRec == [has |-> FALSE, fdv_usd |-> 0, last_updated |-> 0]

\* fetchPriceData, lines 168-178, and the $set of lines 242-246 and
\* 325-329: the data of a token the API reports the valuation fdv of, with
\* the flag and the timestamp of the pass
SetOf(fdv, priority, ts) ==
  [fdv_usd |-> fdv, market_cap |-> fdv, priority |-> priority, last_updated |-> ts]

\* the cast of an update by the model of the schema: a path that is not in
\* the schema is dropped from the update
CastUpdate(set) == [path \in DOMAIN set \cap SchemaPaths |-> set[path]]

\* the document an upsert of the update set leaves
Upserted(set) ==
  [path \in {"has"} \cup DOMAIN CastUpdate(set) |->
     IF path = "has" THEN TRUE ELSE CastUpdate(set)[path]]

\* the key a sort on path gives a document: the value of the path, or null,
\* below every number, when the document has no such path
SortKey(doc, path) == IF path \in DOMAIN doc THEN doc[path] ELSE 0

\* a slot with no pass in it. The fields of a pass: kind, the function cron
\* started (prio: updatePriorityTokens, rot: updateNonPriorityTokens, full:
\* fullTokenUpdate); pc, the await it is suspended at; boot, it is the
\* startup's fullTokenUpdate; buf, the list it works on (ranking result,
\* allTokens, tokensToUpdate, or the priority list being fetched); nin, the
\* priority list as a query of the pass was given it (for a priority pass
\* that ranks: as the pass found it); i, maxTokens until the batch loop and
\* the loop index in it; ops and ts, the operations of the bulkWrite in
\* flight and their timestamp; rejected, the pass that was in the slot
\* ended by throwing
IdlePass ==
  [kind |-> "none", pc |-> "idle", boot |-> FALSE,
   buf |-> <<>>, nin |-> {}, i |-> 0, ops |-> {}, ts |-> 0, rejected |-> FALSE]

\* the pass of record r is over and its slot is free again: it returned
\* (skipped, ranked, ok, or error for a failure it caught and logged), or,
\* for o = "rejected", the promise of the async function was rejected
Finished(r, o) == [IdlePass EXCEPT !.rejected = (o = "rejected")]

Free(p) == pass[p].pc = "idle"
\* cron starts a pass in the lowest free slot (slots are anonymous)
FreeSlot(p) == Free(p) /\ \A q \in Passes : q < p => ~Free(q)

Priced(coll) == {t \in Tokens : coll[t].has}

\* timestamps present in the state: stored ones and those of writes in flight
UsedStamps(coll, ps) ==
  {coll[t].last_updated : t \in Priced(coll)}
    \cup {ps[p].ts : p \in {q \in Passes : ps[q].pc = "write"}}
RankOf(v, U) == Cardinality({u \in U : u < v}) + 1
NormColl(coll, ps) ==
  [t \in Tokens |->
     IF coll[t].has
     THEN [coll[t] EXCEPT !.last_updated = RankOf(@, UsedStamps(coll, ps))]
     ELSE NoRec]
NormPass(coll, ps) ==
  [p \in Passes |->
     IF ps[p].pc = "write"
     THEN [ps[p] EXCEPT !.ts = RankOf(@, UsedStamps(coll, ps))]
     ELSE ps[p]]
\* new Date(): later than every timestamp taken before
Now == SetMax(UsedStamps(priceColl, pass)) + 1

\* the check of line 216 off by one
PriorityBudgetExhausted_OffByOne == apiCallsThisMinute > PRIORITY_CALL_LIMIT
\* updatePriorityTokens, line 216
PriorityBudgetExhausted == apiCallsThisMinute >= PRIORITY_CALL_LIMIT
\* the check of lines 266 and 307 off by one
RotationBudgetExhausted_OffByOne == apiCallsThisMinute > ROTATION_CALL_LIMIT
\* updateNonPriorityTokens, lines 266 and 307
RotationBudgetExhausted == apiCallsThisMinute >= ROTATION_CALL_LIMIT

\* the check of line 221 true of every list
NoPriorityTokens_Always == Len(topTokens) >= 0
\* updatePriorityTokens, line 221
NoPriorityTokens == Len(topTokens) = 0

\* TokenPrice.find({}).sort({market_cap: -1}).limit(PRIORITY_TOKEN_COUNT):
\* the possible results (the order among equal market caps is the store's)
TopByMarketCap(coll) ==
  {MongoLimit(s, TopCount) :
     s \in {q \in Perms(Priced(coll)) :
              \A a, b \in 1..Len(q) :
                 a < b => SortKey(coll[q[a]], "market_cap")
                            >= SortKey(coll[q[b]], "market_cap")}}

\* Token.find({contractAddress: {$nin: nin}}, 'contractAddress')
TokensNotIn(nin) == SelectSeq(tokenColl, LAMBDA t : t \notin nin)

\* the query of lines 291-296 with the sort turned round
OldestFirst_NewestFirst(coll, nin, maxTokens) ==
  {MongoLimit(s, maxTokens) :
     s \in {q \in Perms(Priced(coll) \ nin) :
              \A a, b \in 1..Len(q) :
                 a < b => coll[q[a]].last_updated >= coll[q[b]].last_updated}}
\* TokenPrice.find({contractAddress: {$nin: nin}}).sort({last_updated: 1})
\*   .limit(maxTokens): the possible results
OldestFirst(coll, nin, maxTokens) ==
  {MongoLimit(s, maxTokens) :
     s \in {q \in Perms(Priced(coll) \ nin) :
              \A a, b \in 1..Len(q) :
                 a < b => coll[q[a]].last_updated <= coll[q[b]].last_updated}}

\* lines 299-301 without the fallback of the else branch
TokensToUpdate_NoFallback(oldestFirstTokens, allTokens, maxTokens) ==
  oldestFirstTokens
\* lines 299-301: the price records oldest first, or, when there is none,
\* the head of the regular token list
TokensToUpdate(oldestFirstTokens, allTokens, maxTokens) ==
  IF Len(oldestFirstTokens) > 0
  THEN oldestFirstTokens
  ELSE JsSlice(allTokens, 0, maxTokens)

\* lines 285-288: remainingCalls * BATCH_SIZE. No list of the model is longer
\* than MaxTokens, and slice and limit treat every count beyond the length
\* of the list alike, so the count is kept within -MaxTokens..MaxTokens
MaxTokensFor(calls) ==
  LET maxTokens == (ROTATION_CALL_LIMIT - calls) * BatchSize
  IN Max(0 - MaxTokens, Min(maxTokens, MaxTokens))

\* line 309: tokensToUpdate.slice(i, i + BATCH_SIZE)
BatchAt(todo, i) == JsSlice(todo, i, i + BatchSize)

\* the answers of the price API to a request for addrs: price data for some
\* of the requested addresses (none when the request fails), as the set of
\* <<address, market cap>> pairs
ApiAnswers(addrs, caps) ==
  {a \in SUBSET (Range(addrs) \X caps) :
     \A x, y \in a : x[1] = y[1] => x = y}

\* bulkWrite of updateOne/upsert operations built from an API answer
BulkUpsertPrices(coll, ops, priority, ts) ==
  [t \in Tokens |->
     IF \E o \in ops : o[1] = t
     THEN Upserted(SetOf((CHOOSE o \in ops : o[1] = t)[2], priority, ts))
     ELSE coll[t]]

\* the bookkeeping every scheduler step shares: the startup sequence
\* schedules the cron jobs once its fullTokenUpdate has returned
BootDone(p) == booted' = (booted \/ (pass[p].boot /\ pass'[p].pc = "idle"))

\* fetchPriceData without line 148
CountApiCall_Uncounted == UNCHANGED <<apiCallsThisMinute, issued>>
\* fetchPriceData, lines 145-149: the call is counted before the request
CountApiCall ==
  /\ apiCallsThisMinute' = apiCallsThisMinute + 1
  /\ issued' = issued + 1

\* updateNonPriorityTokens from its first line to its first await, run by
\* the pass of record r when the priority list is top
RotationEntry(r, top) ==
  IF RotationBudgetExhausted
  THEN Finished(r, "skipped")
  ELSE [r EXCEPT !.pc = "tfFind", !.nin = Range(top), !.buf = <<>>]

\* the head of the batch loop without the safety check of line 307
LoopHead_Unchecked(p, r, i) ==
  IF i >= Len(r.buf)
  THEN /\ pass' = [pass EXCEPT ![p] = Finished(r, "ok")]
       /\ UNCHANGED <<apiCallsThisMinute, issued>>
  ELSE /\ pass' = [pass EXCEPT ![p] = [r EXCEPT !.pc = "api", !.i = i]]
       /\ CountApiCall

\* the head of the batch loop, lines 306-314, for the pass of record r at
\* index i of its list: leave the loop, or call fetchPriceData
LoopHead(p, r, i) ==
  IF i >= Len(r.buf) \/ RotationBudgetExhausted
  THEN /\ pass' = [pass EXCEPT ![p] = Finished(r, "ok")]
       /\ UNCHANGED <<apiCallsThisMinute, issued>>
  ELSE /\ pass' = [pass EXCEPT ![p] = [r EXCEPT !.pc = "api", !.i = i]]
       /\ CountApiCall

\* after a batch, lines 346-351: wait 100 ms when batches remain
AfterBatch(r) ==
  IF r.kind = "prio" THEN Finished(r, "ok")
  ELSE IF r.i + BatchSize < Len(r.buf)
       THEN [r EXCEPT !.pc = "delay", !.ops = {}, !.ts = 0]
       ELSE Finished(r, "ok")

\* the interval callback of lines 34-37 without line 35
ResetTick_KeepsCount ==
  /\ UNCHANGED <<apiCallsThisMinute, issued>>
  /\ UNCHANGED <<nonSchedVars, topTokens, tokenColl, priceColl, pass, booted>>

\* setInterval of setupApiCallTracking
ResetTick ==
  /\ apiCallsThisMinute' = 0
  /\ issued' = 0
  /\ UNCHANGED <<nonSchedVars, topTokens, tokenColl, priceColl, pass, booted>>

\* the bulkWrite of fetchAndStoreTokens: the tokens found become Token
\* documents (addresses are numbered in the order they are first seen)
StoreTokens(n) ==
  [k \in 1..Max(n, Len(tokenColl)) |-> k]

\* initializeDataFetching, lines 376-386: fetchAndStoreTokens, then
\* fullTokenUpdate, which starts with updateTopTokensList; nTok tokens exist
Startup(nTok) ==
  /\ ~booted
  /\ \A p \in Passes : pass[p].pc = "idle"
  /\ \E n \in 0..nTok : tokenColl' = StoreTokens(n)
  /\ pass' = [pass EXCEPT ![1] =
               [IdlePass EXCEPT !.kind = "full", !.pc = "rankFind", !.boot = TRUE]]
  /\ UNCHANGED <<nonSchedVars, apiCallsThisMinute, topTokens, priceColl, booted, issued>>

\* cron '*/1 * * * *': fetchAndStoreTokens finds tokens created since
Discover(nTok) ==
  /\ booted
  /\ \E n \in 1..nTok : n > Len(tokenColl) /\ tokenColl' = StoreTokens(n)
  /\ UNCHANGED <<nonSchedVars, apiCallsThisMinute, topTokens, priceColl, pass, booted, issued>>

\* cron '*/2 * * * * *': updatePriorityTokens up to its first await
StartPriority(p) ==
  /\ booted /\ FreeSlot(p)
  /\ LET r == [IdlePass EXCEPT !.kind = "prio"] IN
     IF PriorityBudgetExhausted
     THEN /\ pass' = [pass EXCEPT ![p] = Finished(r, "skipped")]
          /\ UNCHANGED <<apiCallsThisMinute, issued>>
     ELSE IF NoPriorityTokens
     THEN /\ pass' = [pass EXCEPT ![p] =
                        [r EXCEPT !.pc = "rankFind", !.nin = Range(topTokens)]]
          /\ UNCHANGED <<apiCallsThisMinute, issued>>
     ELSE /\ pass' = [pass EXCEPT ![p] = [r EXCEPT !.pc = "api", !.buf = topTokens]]
          /\ CountApiCall
  /\ UNCHANGED <<nonSchedVars, topTokens, tokenColl, priceColl, booted>>

\* cron '*/10 * * * * *': updateNonPriorityTokens up to its first await
StartRotation(p) ==
  /\ booted /\ FreeSlot(p)
  /\ pass' = [pass EXCEPT ![p] =
               RotationEntry([IdlePass EXCEPT !.kind = "rot"], topTokens)]
  /\ UNCHANGED <<nonSchedVars, apiCallsThisMinute, topTokens, tokenColl, priceColl, booted, issued>>

\* cron '0 * * * *': fullTokenUpdate up to its first await
StartFull(p) ==
  /\ booted /\ FreeSlot(p)
  /\ pass' = [pass EXCEPT ![p] = [IdlePass EXCEPT !.kind = "full", !.pc = "rankFind"]]
  /\ UNCHANGED <<nonSchedVars, apiCallsThisMinute, topTokens, tokenColl, priceColl, booted, issued>>

\* updateTopTokensList, lines 200-202: the store answers the ranking query
RankQuery(p) ==
  /\ pass[p].pc = "rankFind"
  /\ \E top \in TopByMarketCap(priceColl) :
       pass' = [pass EXCEPT ![p] = [@ EXCEPT !.pc = "rankResume", !.buf = top]]
  /\ UNCHANGED <<nonSchedVars, apiCallsThisMinute, topTokens, tokenColl, priceColl, booted, issued>>

\* what the caller of updateTopTokensList does next: a priority pass
\* returns (line 224), a full update goes on to updateNonPriorityTokens
\* (line 367)
AfterRanking(r, top) ==
  IF r.kind = "prio" THEN Finished(r, "ranked") ELSE RotationEntry(r, top)

\* updateTopTokensList, lines 205-208, and the caller's continuation
RankResume(p) ==
  /\ pass[p].pc = "rankResume"
  /\ topTokens' = pass[p].buf
  /\ pass' = [pass EXCEPT ![p] = AfterRanking(pass[p], topTokens')]
  /\ BootDone(p)
  /\ UNCHANGED <<nonSchedVars, apiCallsThisMinute, tokenColl, priceColl, issued>>

\* updateTopTokensList, lines 200-202 and 209-211: the ranking query
\* fails, the error is logged, the list stays, and the caller goes on
RankQueryFails(p) ==
  /\ pass[p].pc = "rankFind"
  /\ pass' = [pass EXCEPT ![p] = AfterRanking(pass[p], topTokens)]
  /\ BootDone(p)
  /\ UNCHANGED <<nonSchedVars, apiCallsThisMinute, topTokens, tokenColl, priceColl, issued>>

\* lines 273-296: the store answers Token.find; with tokens to update, the
\* selection is sized from the counter as it is now and the TokenPrice
\* query is sent
TokenQuery(p) ==
  /\ pass[p].pc = "tfFind"
  /\ pass' = [pass EXCEPT ![p] =
               IF Len(TokensNotIn(pass[p].nin)) = 0
               THEN Finished(pass[p], "ok")
               ELSE [@ EXCEPT !.pc = "tpFind",
                              !.buf = TokensNotIn(pass[p].nin),
                              !.nin = Range(topTokens),
                              !.i = MaxTokensFor(apiCallsThisMinute)]]
  /\ BootDone(p)
  /\ UNCHANGED <<nonSchedVars, apiCallsThisMinute, topTokens, tokenColl, priceColl, issued>>

\* lines 291-314: the store answers the oldest-first query and the batch
\* loop is entered
PriceQuery(p) ==
  /\ pass[p].pc = "tpFind"
  /\ \E old \in OldestFirst(priceColl, pass[p].nin, pass[p].i) :
       LoopHead(p, [pass[p] EXCEPT
                      !.buf = TokensToUpdate(old, pass[p].buf, pass[p].i),
                      !.nin = {}], 0)
  /\ BootDone(p)
  /\ UNCHANGED <<nonSchedVars, topTokens, tokenColl, priceColl>>

\* lines 273 and 291 without the try block of lines 271-355: the failure
\* of the query rejects the pass
QueryFails_Uncaught(p) ==
  /\ pass[p].pc \in {"tfFind", "tpFind"}
  /\ pass' = [pass EXCEPT ![p] = Finished(pass[p], "rejected")]
  /\ BootDone(p)
  /\ UNCHANGED <<nonSchedVars, apiCallsThisMinute, topTokens, tokenColl, priceColl, issued>>

\* lines 273, 291 and 353-355: Token.find or TokenPrice.find fails, the
\* error is logged and the pass returns
QueryFails(p) ==
  /\ pass[p].pc \in {"tfFind", "tpFind"}
  /\ pass' = [pass EXCEPT ![p] = Finished(pass[p], "error")]
  /\ BootDone(p)
  /\ UNCHANGED <<nonSchedVars, apiCallsThisMinute, topTokens, tokenColl, priceColl, issued>>

\* fetchPriceData, lines 158-191, and the caller up to its bulkWrite
\* (lines 233-255, 316-338): the API answers with the data ans, the
\* operations are built
ApiAnswer(p, caps) ==
  /\ pass[p].pc = "api"
  /\ \E ans \in ApiAnswers(IF pass[p].kind = "prio" THEN pass[p].buf
                           ELSE BatchAt(pass[p].buf, pass[p].i), caps) :
       LET r  == IF ans = {} THEN AfterBatch(pass[p])
                 ELSE [pass[p] EXCEPT !.pc = "write", !.ops = ans, !.ts = Now]
           ps == [pass EXCEPT ![p] = r]
       IN /\ pass' = NormPass(priceColl, ps)
          /\ priceColl' = NormColl(priceColl, ps)
  /\ BootDone(p)
  /\ UNCHANGED <<nonSchedVars, apiCallsThisMinute, topTokens, tokenColl, issued>>

\* fetchPriceData, lines 158 and 184-187, and the caller (lines 233-258,
\* 316-350): the API answers with a rate-limit response (HTTP 429, with
\* or without a Retry-After hint), axios rejects, the error is logged and
\* an empty result is returned; the caller has no operation to write
ApiRateLimited(p) ==
  /\ pass[p].pc = "api"
  /\ LET ps == [pass EXCEPT ![p] = AfterBatch(pass[p])]
     IN /\ pass' = NormPass(priceColl, ps)
        /\ priceColl' = NormColl(priceColl, ps)
  /\ BootDone(p)
  /\ UNCHANGED <<nonSchedVars, apiCallsThisMinute, topTokens, tokenColl, issued>>

\* TokenPrice.bulkWrite, lines 255 and 338: the store applies the upserts
BulkWrite(p) ==
  /\ pass[p].pc = "write"
  /\ LET coll == BulkUpsertPrices(priceColl, pass[p].ops,
                                  pass[p].kind = "prio", pass[p].ts)
         ps   == [pass EXCEPT ![p] = AfterBatch(pass[p])]
     IN /\ pass' = NormPass(coll, ps)
        /\ priceColl' = NormColl(coll, ps)
  /\ BootDone(p)
  /\ UNCHANGED <<nonSchedVars, apiCallsThisMinute, topTokens, tokenColl, issued>>

\* TokenPrice.bulkWrite fails: the error is caught and logged (lines 259
\* and 342)
BulkWriteFails(p) ==
  /\ pass[p].pc = "write"
  /\ LET ps == [pass EXCEPT ![p] = AfterBatch(pass[p])]
     IN /\ pass' = NormPass(priceColl, ps)
        /\ priceColl' = NormColl(priceColl, ps)
  /\ BootDone(p)
  /\ UNCHANGED <<nonSchedVars, apiCallsThisMinute, topTokens, tokenColl, issued>>

\* lines 347-349 and the next turn of the loop, lines 306-314
DelayDone(p) ==
  /\ pass[p].pc = "delay"
  /\ LoopHead(p, pass[p], pass[p].i + BatchSize)
  /\ BootDone(p)
  /\ UNCHANGED <<nonSchedVars, topTokens, tokenColl, priceColl>>

SchedInit ==
  /\ apiCallsThisMinute = 0
  /\ topTokens = <<>>
  /\ tokenColl = <<>>
  /\ priceColl = [t \in Tokens |-> NoRec]
  /\ pass = [p \in Passes |-> IdlePass]
  /\ booted = FALSE
  /\ issued = 0

\* the steps of the pass in slot p
PassStep(p, caps) ==
  \/ StartPriority(p)
  \/ StartRotation(p)
  \/ StartFull(p)
  \/ RankQuery(p)
  \/ RankResume(p)
  \/ RankQueryFails(p)
  \/ TokenQuery(p)
  \/ PriceQuery(p)
  \/ QueryFails(p)
  \/ ApiAnswer(p, caps)
  \/ ApiRateLimited(p)
  \/ BulkWrite(p)
  \/ BulkWriteFails(p)
  \/ DelayDone(p)

----------------------------------------------------------------------------
(* Token discovery: fetchAndStoreTokens, tokenDataService.js lines 46-142 *)

\* lines 10-14: the factories whose events are scanned
FACTORY_ADDRESSES == <<<<"factory", 1, TRUE>>, <<"factory", 2, TRUE>>, <<"factory", 3, TRUE>>>>
\* line 62: the last 20,000 blocks
SCAN_WINDOW == 20000

\* the chain head advances in steps of half a window, up to MaxBlockSteps
\* steps; a getLogs answer holds up to MaxFound decodable events
BlockStep == SCAN_WINDOW \div 2
MaxBlockSteps == 5
MaxFound == 1

\* line 62 without the clamp at block 0
StartBlock_Unclamped(currentBlock) == currentBlock - SCAN_WINDOW
\* line 62: START_BLOCK = Math.max(0, currentBlock - 20000)
StartBlock(currentBlock) == Max(0, currentBlock - SCAN_WINDOW)

\* lines 73-78: the filter of the getLogs query for the factory at
\* position f (from 1)
LogFilter(f, currentBlock) ==
  [address |-> FACTORY_ADDRESSES[f], fromBlock |-> StartBlock(currentBlock),
   toBlock |-> currentBlock]

\* no call of fetchAndStoreTokens has been made. The fields of a call: pc,
\* the await it is suspended at (idle: it has returned); currentBlock, the
\* block number it read; f, the position of the factory being queried;
\* queries, the filters of the getLogs queries it has sent; tokens, the
\* number of token records it has decoded; last, the block number the call
\* before it read, and rejected, the call ended by throwing
NoScan ==
  [pc |-> "idle", currentBlock |-> 0, f |-> 0, queries |-> <<>>, tokens |-> 0,
   last |-> 0, rejected |-> FALSE]

\* the call of record r is over: it returned (lines 135-142), or, for o =
\* "rejected", the promise of the async function was rejected
Returned(r, o) == [r EXCEPT !.pc = "idle", !.rejected = (o = "rejected")]

\* lines 69-81 and 118-135 for the call of record r with the factory at
\* position f done: the next factory is queried, or the tokens found are
\* written, or, without tokens, the call returns
NextFactory(r) ==
  IF r.f < Len(FACTORY_ADDRESSES)
  THEN [r EXCEPT !.pc = "logs", !.f = r.f + 1,
                 !.queries = Append(r.queries, LogFilter(r.f + 1, r.currentBlock))]
  ELSE IF r.tokens > 0 THEN [r EXCEPT !.pc = "write"]
  ELSE Returned(r, "ok")

\* what no step of the discovery touches but the Token collection
nonScanVars ==
  <<apiCallsThisMinute, topTokens, priceColl, pass, booted, issued,
    oracleVars, pipeVars, pureVars>>

\* a block is mined, whatever the discovery is doing
ChainGrows ==
  /\ chainHead < MaxBlockSteps * BlockStep
  /\ chainHead' = chainHead + BlockStep
  /\ UNCHANGED <<scan, tokenColl, nonScanVars>>

\* lines 46-58, called by initializeDataFetching (line 383) and by cron
\* (line 391): the provider is made and asked for the block number
ScanStart ==
  /\ scan.pc = "idle"
  /\ scan' = [NoScan EXCEPT !.pc = "block", !.last = scan.currentBlock]
  /\ UNCHANGED <<chainHead, tokenColl, nonScanVars>>

\* lines 58-81: the block number is read, the window is computed and the
\* first factory is queried
BlockAnswer ==
  /\ scan.pc = "block"
  /\ scan' = NextFactory([scan EXCEPT !.currentBlock = chainHead])
  /\ UNCHANGED <<chainHead, tokenColl, nonScanVars>>

\* lines 58 and 136-138: getBlockNumber fails, the error is logged
BlockFails ==
  /\ scan.pc = "block"
  /\ scan' = Returned(scan, "error")
  /\ UNCHANGED <<chainHead, tokenColl, nonScanVars>>

\* lines 81-114: getLogs answers; the events that decode become token
\* records, one that does not decode is logged and passed over
LogsAnswer ==
  /\ scan.pc = "logs"
  /\ \E found \in 0..MaxFound :
       scan' = NextFactory([scan EXCEPT !.tokens = @ + found])
  /\ UNCHANGED <<chainHead, tokenColl, nonScanVars>>

\* lines 81 and 115-117: getLogs fails for this factory, the error is
\* logged and the next factory is processed
LogsFail ==
  /\ scan.pc = "logs"
  /\ scan' = NextFactory(scan)
  /\ UNCHANGED <<chainHead, tokenColl, nonScanVars>>

\* lines 123-135: Token.bulkWrite upserts the records; those of tokens not
\* stored yet become new documents
TokensWritten ==
  /\ scan.pc = "write"
  /\ \E n \in Len(tokenColl)..Min(Len(tokenColl) + scan.tokens, MaxTokens) :
       tokenColl' = StoreTokens(n)
  /\ scan' = Returned(scan, "ok")
  /\ UNCHANGED <<chainHead, nonScanVars>>

\* lines 132 and 136-138: Token.bulkWrite fails after some of its
\* operations, the error is logged
TokensWriteFails ==
  /\ scan.pc = "write"
  /\ \E n \in Len(tokenColl)..Min(Len(tokenColl) + scan.tokens - 1, MaxTokens) :
       tokenColl' = StoreTokens(n)
  /\ scan' = Returned(scan, "error")
  /\ UNCHANGED <<chainHead, nonScanVars>>

\* module load: no call made; the chain is at its first block
ScanInit ==
  /\ chainHead = 0
  /\ scan = NoScan

----------------------------------------------------------------------------
(* The WETH price oracle: fetchWethPrice, Backend2/services/geckoDataService.js *)

\* geckoDataService.js:62  const WETH_PRICE_CACHE_TTL = 15 * 60 * 1000
WETH_PRICE_CACHE_TTL == 15 * 60 * 1000
\* geckoDataService.js:149  return cachedWethPrice || 1911
FALLBACK_WETH_PRICE == 1911

\* the clock of the model advances in steps of five minutes
ClockStep == 5 * 60 * 1000
\* Date.now() when the process starts: more than the TTL after the epoch
StartTime == 4 * ClockStep

\* cachedWethPrice = null. A price computed from a pool read is a positive
\* number (line 137), and the code tests the cache for truth only, so null
\* is kept as the one falsy number
Null == 0

\* the prices the pool reads of the model yield (line 137)
WethPrices == {2000, 2100}
\* the one price the pool reads yield while the pipeline is followed
PipeWethPrice == CHOOSE price \in WethPrices : \A other \in WethPrices : price <= other

\* who calls fetchWethPrice: initializeDataFetching (line 797, the first
\* call of the process) and enrichWithPoolData (line 614) in the run the
\* startup timer started and in the run cron started
Callers == {"prefetch", "startup", "cron"}
RunIds == {"startup", "cron"}

\* a call of fetchWethPrice: pc, where it is (idle: not called, read:
\* awaiting the pool read, done: returned); at, its const now; ret, what
\* it returned; how it returned (cache, read, fallback); readAt, for a
\* price from the cache, when the read of that price began; cold, for a
\* fallback, no price was cached when the read failed
NoCall ==
  [pc |-> "idle", at |-> 0, ret |-> Null, how |-> "none", readAt |-> 0, cold |-> FALSE]

\* line 88 with <= for <
CacheFresh_Inclusive(t) ==
  cachedWethPrice # Null /\ t - wethPriceLastUpdated <= WETH_PRICE_CACHE_TTL
\* line 88: cachedWethPrice && now - wethPriceLastUpdated < WETH_PRICE_CACHE_TTL
CacheFresh(t) ==
  cachedWethPrice # Null /\ t - wethPriceLastUpdated < WETH_PRICE_CACHE_TTL

\* line 149 without the fallback constant
FallbackPrice_CacheOnly == cachedWethPrice
\* line 149 without the cache
FallbackPrice_ConstantOnly == FALLBACK_WETH_PRICE
\* line 149: cachedWethPrice || 1911
FallbackPrice ==
  IF cachedWethPrice # Null THEN cachedWethPrice ELSE FALLBACK_WETH_PRICE

\* fetchWethPrice, lines 84-103, for caller c: the cached price, or the
\* pool read is sent
WethCall(c) ==
  /\ weth[c].pc = "idle"
  /\ weth' = [weth EXCEPT ![c] =
       IF CacheFresh(now)
       THEN [NoCall EXCEPT !.pc = "done", !.at = now, !.ret = cachedWethPrice,
                           !.how = "cache", !.readAt = priceReadAt]
       ELSE [NoCall EXCEPT !.pc = "read", !.at = now]]
  /\ UNCHANGED <<now, cachedWethPrice, wethPriceLastUpdated, priceReadAt>>

\* lines 100-146 with the cache stamped with the time of the answer
WethReadOk_StampsAnswer(c, prices) ==
  /\ weth[c].pc = "read"
  /\ \E price \in prices :
       /\ cachedWethPrice' = price
       /\ weth' = [weth EXCEPT ![c] = [@ EXCEPT !.pc = "done", !.ret = price, !.how = "read"]]
  /\ wethPriceLastUpdated' = now
  /\ priceReadAt' = now
  /\ UNCHANGED now

\* lines 100-146: the pool read answers, the price (one of prices) is
\* computed and cached with the time the call began
WethReadOk(c, prices) ==
  /\ weth[c].pc = "read"
  /\ \E price \in prices :
       /\ cachedWethPrice' = price
       /\ weth' = [weth EXCEPT ![c] = [@ EXCEPT !.pc = "done", !.ret = price, !.how = "read"]]
  /\ wethPriceLastUpdated' = weth[c].at
  /\ priceReadAt' = weth[c].at
  /\ UNCHANGED now

\* lines 147-150: the pool read fails
WethReadFails(c) ==
  /\ weth[c].pc = "read"
  /\ weth' = [weth EXCEPT ![c] =
       [@ EXCEPT !.pc = "done", !.ret = FallbackPrice, !.how = "fallback",
                 !.cold = (cachedWethPrice = Null)]]
  /\ UNCHANGED <<now, cachedWethPrice, wethPriceLastUpdated, priceReadAt>>

\* the caller has the value: the call is over
WethReturned(c) == [weth EXCEPT ![c] = NoCall]

\* time passes, up to the horizon maxNow
ClockTick(maxNow) ==
  /\ now < maxNow
  /\ now' = now + ClockStep
  /\ UNCHANGED <<cachedWethPrice, wethPriceLastUpdated, weth, priceReadAt>>

\* module load (lines 60-61) and the call of line 797, made by
\* initializeDataFetching before anything else runs
OracleInit ==
  /\ now = StartTime
  /\ cachedWethPrice = Null
  /\ wethPriceLastUpdated = 0
  /\ priceReadAt = 0
  /\ weth = [c \in Callers |->
               IF c = "prefetch" THEN [NoCall EXCEPT !.pc = "read", !.at = StartTime]
               ELSE NoCall]

----------------------------------------------------------------------------
(* Values of the enrichment pipeline.                                      *)
(* A JavaScript value that may be undefined is a tuple: <<>> is undefined  *)
(* (and the empty string, which the code never tells from it), a decimal   *)
(* string is the tuple of its digits, an address is <<kind, id, mixed>>    *)
(* with mixed = TRUE for the checksummed spelling ethers returns and FALSE *)
(* for the lower-cased one. Floating-point amounts are kept symbolically:  *)
(* Zero, or the term of the computation that produced them.                *)

Undefined == <<>>
Zero == <<0>>
Truthy(x) == x # Undefined

TokenAddr(n) == <<"token", n, FALSE>>
PoolAddr(n) == <<"pool", n, TRUE>>
WETH_ADDRESS == <<"weth", 0, TRUE>>
\* String.prototype.toLowerCase on an address
ToLowerCase(a) == <<a[1], a[2], FALSE>>

\* BigInt.prototype.toString: the decimal digits of n >= 0
RECURSIVE DigitsOf(_)
DigitsOf(n) == IF n < 10 THEN <<n>> ELSE Append(DigitsOf(n \div 10), n % 10)

\* BigInt(string) of a decimal string
RECURSIVE BigIntOf(_)
BigIntOf(s) ==
  IF Len(s) = 0 THEN 0
  ELSE 10 * BigIntOf(SubSeq(s, 1, Len(s) - 1)) + s[Len(s)]

----------------------------------------------------------------------------
(* Positional decoding of aggregate3 results: getTokensBasicInfo and       *)
(* getPoolsData.                                                           *)

\* calls per token in getTokensBasicInfo (lines 181-209, 218: i += 4)
TOKEN_CALLS == 4
\* calls per pool in getPoolsData (lines 416-451, 459: i += 5)
POOL_CALLS == 5

\* an aggregate3 result: success, the flag of the call; data, the decoded
\* return values; bad, decodeFunctionResult throws on the return data
Result(success, data, bad) == [success |-> success, data |-> data, bad |-> bad]
Decodes(r) == r.success /\ ~r.bad

\* the index of the result for call f of the entity whose calls begin at i,
\* without the offset of the entity
ResultIndex_FromStart(i, f) == f
\* results[i + f], lines 228-241 and 463-482
ResultIndex(i, f) == i + f

\* results[i + f] of the 0-based JavaScript array
At(results, i, f) == results[ResultIndex(i, f) + 1]

\* every decode in a try block of its own: each call is reached
Reached_Always(results, i, f) == TRUE
\* the try block of lines 227-245 and 462-486 runs the decodes in order and
\* is left at the first that throws: call f is reached when no earlier
\* successful call of the entity has undecodable data
Reached(results, i, f) ==
  \A g \in 0..(f - 1) : ~(At(results, i, g).success /\ At(results, i, g).bad)

\* the value call f yields, or dflt when the call failed or was not decoded
Field(results, i, f, dflt) ==
  IF Reached(results, i, f) /\ Decodes(At(results, i, f))
  THEN At(results, i, f).data
  ELSE dflt

\* getTokensBasicInfo, lines 215-259: the entry of the token at position
\* currentToken (0-based) of tokenAddresses
TokenInfo(tokenAddresses, results, currentToken) ==
  LET i == TOKEN_CALLS * currentToken
      decimals == Field(results, i, 2, <<18>>)
      totalSupply == Field(results, i, 3, Undefined)
  IN [address |-> ToLowerCase(tokenAddresses[currentToken + 1]),
      name |-> Field(results, i, 0, Undefined),
      symbol |-> Field(results, i, 1, Undefined),
      decimals |-> decimals[1],
      totalSupply |-> IF totalSupply = Undefined THEN <<0>> ELSE DigitsOf(totalSupply[1]),
      pools |-> <<>>]

\* getTokensBasicInfo, lines 218-257: one entry per group of four results
DecodeTokens(tokenAddresses, results) ==
  [k \in 1..(Len(results) \div TOKEN_CALLS) |-> TokenInfo(tokenAddresses, results, k - 1)]

\* poolDataMap[poolAddress]; the map is kept as the sequence of its records
PoolRecord(poolDataMap, poolAddress) ==
  poolDataMap[CHOOSE k \in 1..Len(poolDataMap) : poolDataMap[k].address = poolAddress]

\* getPoolsData, lines 459-489: the record of the pool at position
\* currentPool (0-based) of poolAddresses
PoolData(poolAddresses, poolDataMap, results, currentPool) ==
  LET i == POOL_CALLS * currentPool
      token0 == Field(results, i, 0, Undefined)
      token1 == Field(results, i, 1, Undefined)
      fee == Field(results, i, 2, Undefined)
      liquidity == Field(results, i, 3, Undefined)
      slot0 == Field(results, i, 4, Undefined)
  IN [PoolRecord(poolDataMap, poolAddresses[currentPool + 1]) EXCEPT
        !.token0 = IF token0 = Undefined THEN @ ELSE ToLowerCase(token0),
        !.token1 = IF token1 = Undefined THEN @ ELSE ToLowerCase(token1),
        !.fee = IF fee = Undefined THEN @ ELSE fee[1],
        !.liquidity = IF liquidity = Undefined THEN @ ELSE DigitsOf(liquidity[1]),
        !.sqrtPriceX96 = IF slot0 = Undefined THEN @ ELSE DigitsOf(slot0[1]),
        !.tick = IF slot0 = Undefined THEN @ ELSE <<slot0[2]>>]

\* getPoolsData, lines 404-496: poolDataMap with the records of
\* poolAddresses brought up to date from the results
DecodePools(poolAddresses, poolDataMap, results) ==
  [k \in 1..Len(poolDataMap) |->
     LET at == {j \in 1..(Len(results) \div POOL_CALLS) :
                  poolAddresses[j] = poolDataMap[k].address}
     IN IF at = {} THEN poolDataMap[k]
        ELSE PoolData(poolAddresses, poolDataMap, results, (CHOOSE j \in at : TRUE) - 1)]

\* findWethPoolsBatched, lines 364-370: the record discovery makes of a pool
DiscoveredPool(poolAddress, token0, token1, fee) ==
  [address |-> poolAddress, token0 |-> token0, token1 |-> token1, fee |-> fee,
   dex |-> <<"Uniswap V3">>, liquidity |-> Undefined,
   sqrtPriceX96 |-> Undefined, tick |-> Undefined]

----------------------------------------------------------------------------
(* Selection of the authoritative pool: enrichWithPoolData, lines 630-660 *)

\* line 645 with >= for >
ExceedsHighest_OrEqual(liquidity, highestLiquidity) == liquidity >= highestLiquidity
\* line 645: liquidity > highestLiquidity, on BigInts
ExceedsHighest(liquidity, highestLiquidity) == liquidity > highestLiquidity

\* line 638: the pool is passed over
Unusable(pool) == ~Truthy(pool.liquidity) \/ pool.tick = Undefined

\* lines 630-635: the variables of the loop; bestPool is the position of the
\* pool in the list, 0 for null
NoSelection ==
  [highestLiquidity |-> 0, bestPool |-> 0, mainPoolAddress |-> Undefined,
   mainPoolTick |-> 0, main_dex |-> Undefined]

\* lines 637-656: the loop over the pools from position k on
RECURSIVE SelectFrom(_, _, _)
SelectFrom(pools, k, sel) ==
  IF k > Len(pools) THEN sel
  ELSE IF Unusable(pools[k]) THEN SelectFrom(pools, k + 1, sel)
  ELSE IF ExceedsHighest(BigIntOf(pools[k].liquidity), sel.highestLiquidity)
  THEN SelectFrom(pools, k + 1,
         [highestLiquidity |-> BigIntOf(pools[k].liquidity),
          bestPool |-> k,
          mainPoolAddress |-> pools[k].address,
          mainPoolTick |-> pools[k].tick[1],
          main_dex |-> pools[k].dex])
  ELSE SelectFrom(pools, k + 1, sel)

SelectMainPool(pools) == SelectFrom(pools, 1, NoSelection)

----------------------------------------------------------------------------
(* The enrichment pipeline: updateTokenData and the functions it calls,    *)
(* Backend2/services/geckoDataService.js                                   *)

\* Token.find({}, {contractAddress: 1}): the Token collection of the model;
\* the Token schema lower-cases contractAddress and keeps it unique
TokenAddresses(n) == [k \in 1..n |-> TokenAddr(k)]

\* chunkArray(addresses, size)[i], lines 164-170 and 846
BatchOf(addresses, size, i) == JsSlice(addresses, i * size, (i + 1) * size)
BatchCount(addresses, size) == (Len(addresses) + size - 1) \div size

\* price = priceInWETH * wethPriceUsd, lines 663-689, of the pool with the
\* given tick: a positive number, kept as the term that determines it
PriceUsd(tick, isToken0, decimals, wethPriceUsd) ==
  <<"price", tick, isToken0, decimals, wethPriceUsd>>

\* calculateMarketCap, lines 527-557, for a positive price: 0 for a supply
\* that is missing or zero, else supply / 10^decimals * price
MarketCapOf(totalSupply, decimals, price) ==
  IF ~Truthy(totalSupply) \/ BigIntOf(totalSupply) = 0
  THEN Zero
  ELSE <<"market_cap", totalSupply, decimals, price>>

\* calculateLiquidityInUSD, lines 560-606, for a positive price
LiquidityUsdOf(pool, price, wethPriceUsd) ==
  IF pool.liquidity = <<0>>
  THEN Zero
  ELSE <<"liquidity_usd", pool.liquidity, pool.sqrtPriceX96, price, wethPriceUsd>>

\* updateTokenData, lines 870-882: the pools and their number are put on the
\* token's basic info
WithPools(tokenData, pools) ==
  [address |-> tokenData.address, name |-> tokenData.name,
   symbol |-> tokenData.symbol, decimals |-> tokenData.decimals,
   totalSupply |-> tokenData.totalSupply, pools |-> pools,
   pool_count |-> Len(pools),
   price_usd |-> Undefined, liquidity_usd |-> Undefined, market_cap |-> Undefined,
   main_dex |-> Undefined, main_pool_address |-> Undefined, main_pool_tick |-> 0]

\* enrichWithPoolData, lines 618-716, for one token
EnrichToken(tokenData, wethPriceUsd) ==
  IF Len(tokenData.pools) = 0 THEN tokenData
  ELSE
    LET sel == SelectMainPool(tokenData.pools)
        bestPool == tokenData.pools[sel.bestPool]
        isToken0 == bestPool.token0 = ToLowerCase(tokenData.address)
        price == IF sel.bestPool = 0 THEN Zero
                 ELSE PriceUsd(sel.mainPoolTick, isToken0, tokenData.decimals, wethPriceUsd)
    IN [tokenData EXCEPT
          !.pool_count = Len(tokenData.pools),
          !.main_dex = sel.main_dex,
          !.main_pool_address = sel.mainPoolAddress,
          !.main_pool_tick = sel.mainPoolTick,
          !.price_usd = price,
          !.liquidity_usd = IF sel.bestPool = 0 THEN Zero
                            ELSE LiquidityUsdOf(bestPool, price, wethPriceUsd),
          !.market_cap = IF sel.bestPool = 0 THEN @
                         ELSE MarketCapOf(tokenData.totalSupply, tokenData.decimals, price)]

\* the amount without the "|| 0"
OrZero_Raw(x) == x
\* x || 0 of an amount
OrZero(x) == IF Truthy(x) THEN x ELSE Zero

\* processAndStoreTokensData, lines 744-757: tokenDoc
TokenDoc(tokenData, date) ==
  [contractAddress |-> ToLowerCase(tokenData.address),
   name |-> tokenData.name,
   symbol |-> tokenData.symbol,
   decimals |-> IF tokenData.decimals = 0 THEN 18 ELSE tokenData.decimals,
   totalSupply |-> IF Truthy(tokenData.totalSupply) THEN tokenData.totalSupply ELSE <<0>>,
   pool_count |-> tokenData.pool_count,
   price_usd |-> OrZero(tokenData.price_usd),
   market_cap |-> OrZero(tokenData.market_cap),
   main_dex |-> tokenData.main_dex,
   main_pool_address |-> tokenData.main_pool_address,
   main_pool_tick |-> tokenData.main_pool_tick,
   lastUpdated |-> date]

\* GeckoDataSchema: the fields a document has beyond those of tokenDoc, with
\* their defaults; createdAt and updatedAt come from {timestamps: true}
InsertedDoc(tokenDoc, date) ==
  [contractAddress |-> tokenDoc.contractAddress, name |-> tokenDoc.name,
   symbol |-> tokenDoc.symbol, decimals |-> tokenDoc.decimals,
   totalSupply |-> tokenDoc.totalSupply, pool_count |-> tokenDoc.pool_count,
   price_usd |-> tokenDoc.price_usd, market_cap |-> tokenDoc.market_cap,
   main_dex |-> tokenDoc.main_dex,
   main_pool_address |-> tokenDoc.main_pool_address,
   main_pool_tick |-> tokenDoc.main_pool_tick,
   lastUpdated |-> tokenDoc.lastUpdated,
   volume_usd |-> Zero, liquidity_usd |-> Zero,
   createdAt |-> date, updatedAt |-> date]

\* {$set: tokenDoc} on a stored document, with the updatedAt of timestamps
UpdatedDoc(stored, tokenDoc, date) ==
  [f \in DOMAIN stored |->
     IF f \in DOMAIN tokenDoc THEN tokenDoc[f]
     ELSE IF f = "updatedAt" THEN date
     ELSE stored[f]]

\* the documents of coll the filter {contractAddress: a} matches
Matching(coll, a) == {k \in 1..Len(coll) : coll[k].contractAddress = a}

\* updateOne with upsert as an insert whatever the collection holds
UpsertOne_InsertAlways(coll, tokenDoc, date) == Append(coll, InsertedDoc(tokenDoc, date))
\* updateOne {filter: {contractAddress}, update: {$set: tokenDoc}, upsert:
\* true}, lines 760-766: the first match is updated, or the document is
\* inserted
UpsertOne(coll, tokenDoc, date) ==
  IF Matching(coll, tokenDoc.contractAddress) = {}
  THEN Append(coll, InsertedDoc(tokenDoc, date))
  ELSE LET k == CHOOSE m \in Matching(coll, tokenDoc.contractAddress) :
                  \A o \in Matching(coll, tokenDoc.contractAddress) : m <= o
       IN [coll EXCEPT ![k] = UpdatedDoc(coll[k], tokenDoc, date)]

\* GeckoData.bulkWrite(bulkOperations), line 776: the first n operations,
\* in order
RECURSIVE BulkUpsert(_, _, _, _)
BulkUpsert(coll, ops, date, n) ==
  IF n = 0 THEN coll
  ELSE UpsertOne(BulkUpsert(coll, ops, date, n - 1), ops[n], date)

\* an updateTokenData run: pc, the await it is suspended at; addresses, the
\* result of Token.find; i, the index of the batch; info, tokenBasicInfo as
\* the sequence of its entries; pools, tokenPoolsMap as the sequence, in
\* batch order, of each token's list of pool records; ops, the tokenDocs
\* of the bulkWrite in flight, and date, its timestamp; rejected, the run
\* before ended by throwing
IdleRun ==
  [pc |-> "idle", addresses |-> <<>>, i |-> 0, info |-> <<>>, pools |-> <<>>,
   ops |-> <<>>, date |-> 0, rejected |-> FALSE]

Active(r) == run[r].pc # "idle"

RECURSIVE Flatten(_)
Flatten(seqs) == IF Len(seqs) = 0 THEN <<>> ELSE Head(seqs) \o Flatten(Tail(seqs))

\* what the chain answers to the four calls on the token at address a: its
\* name, symbol, decimals and supply
TokenResults(a) ==
  <<Result(TRUE, <<"name", a[2]>>, FALSE), Result(TRUE, <<"symbol", a[2]>>, FALSE),
    Result(TRUE, <<18>>, FALSE), Result(TRUE, <<1000>>, FALSE)>>

\* what the chain answers to the five calls on the pool of the token at
\* address a: token0, token1, fee, liquidity and slot0
PoolResults(a) ==
  <<Result(TRUE, <<a[1], a[2], TRUE>>, FALSE), Result(TRUE, WETH_ADDRESS, FALSE),
    Result(TRUE, <<3000>>, FALSE), Result(TRUE, <<500000>>, FALSE),
    Result(TRUE, <<79228, 7>>, FALSE)>>

\* the chain while the pipeline is followed: the tokens with an even number
\* have one pool with WETH, in the 3000 fee tier, the others have none
HasPool(a) == a[2] % 2 = 0
\* tokenPoolsMap[a] and the records of poolDataMap as findWethPoolsBatched
\* leaves them
PoolsFound(a) ==
  IF HasPool(a)
  THEN <<DiscoveredPool(PoolAddr(a[2]), ToLowerCase(a), ToLowerCase(WETH_ADDRESS), 3000)>>
  ELSE <<>>

\* the run r is over, without the .finally of lines 825-827
RunEnds_KeepsFlag(r, o) ==
  /\ run' = [run EXCEPT ![r] = [IdleRun EXCEPT !.rejected = (o = "rejected")]]
  /\ UNCHANGED isUpdating

\* the run r is over (lines 898-902, and line 826 for the run of cron): it
\* returned (ok, or error for a failure caught and logged at lines
\* 899-901), or, for o = "rejected", its promise was rejected
RunEnds(r, o) ==
  /\ run' = [run EXCEPT ![r] = [IdleRun EXCEPT !.rejected = (o = "rejected")]]
  /\ isUpdating' = IF r = "cron" THEN FALSE ELSE isUpdating

\* updateTokenData, lines 852-859: batch i begins with getTokensBasicInfo
BatchBegins(r, rec, i) ==
  [rec EXCEPT !.pc = "info", !.i = i, !.info = <<>>, !.pools = <<>>, !.ops = <<>>, !.date = 0]

\* lines 889-896: after processAndStoreTokensData, wait and go on, or end
AfterStore(r) ==
  IF run[r].i + 1 < BatchCount(run[r].addresses, PipeBatchSize)
  THEN /\ run' = [run EXCEPT ![r] = [@ EXCEPT !.pc = "delay", !.info = <<>>,
                                               !.pools = <<>>, !.ops = <<>>, !.date = 0]]
       /\ UNCHANGED isUpdating
  ELSE RunEnds(r, "ok")

\* what no step of the pipeline touches
nonPipeVars == <<schedVars, pureVars, scanVars>>

\* the cron callback without the test of the flag, lines 816-819
CronTick_Unguarded ==
  /\ isUpdating' = TRUE
  /\ run' = [run EXCEPT !["cron"] = [IdleRun EXCEPT !.pc = "find"]]
  /\ UNCHANGED <<startupTimer, geckoColl, oracleVars, nonPipeVars>>

\* the cron callback, lines 816-819, when an update is flagged: it logs and
\* returns, and nothing is kept of the tick
CronTickSkipped ==
  /\ isUpdating
  /\ UNCHANGED <<pipeVars, oracleVars, nonPipeVars>>

\* the cron callback, lines 815-828, when no update is flagged; it calls
\* updateTokenData, which runs to its Token.find
CronTick ==
  /\ ~isUpdating
  /\ isUpdating' = TRUE
  /\ run' = [run EXCEPT !["cron"] = [IdleRun EXCEPT !.pc = "find"]]
  /\ UNCHANGED <<startupTimer, geckoColl, oracleVars, nonPipeVars>>

\* the setTimeout callback, lines 808-810: updateTokenData is called
StartupTimerFires ==
  /\ startupTimer
  /\ startupTimer' = FALSE
  /\ run' = [run EXCEPT !["startup"] = [IdleRun EXCEPT !.pc = "find"]]
  /\ UNCHANGED <<isUpdating, geckoColl, oracleVars, nonPipeVars>>

\* lines 839-856: Token.find answers, the first batch begins
TokenFind(r) ==
  /\ run[r].pc = "find"
  /\ run' = [run EXCEPT ![r] =
               BatchBegins(r, [@ EXCEPT !.addresses = TokenAddresses(PipeTokens)], 0)]
  /\ UNCHANGED isUpdating
  /\ UNCHANGED <<startupTimer, geckoColl, oracleVars, nonPipeVars>>

\* lines 839 and 899-901: Token.find fails
TokenFindFails(r) ==
  /\ run[r].pc = "find"
  /\ RunEnds(r, "error")
  /\ UNCHANGED <<startupTimer, geckoColl, oracleVars, nonPipeVars>>

\* getTokensBasicInfo, lines 212-259, and line 859: aggregate3 answers, the
\* results are decoded, findWethPoolsBatched is called
InfoAnswer(r) ==
  /\ run[r].pc = "info"
  /\ LET batch == BatchOf(run[r].addresses, PipeBatchSize, run[r].i) IN
     run' = [run EXCEPT ![r] =
               [@ EXCEPT !.pc = "pools",
                         !.info = DecodeTokens(batch,
                            Flatten([k \in 1..Len(batch) |-> TokenResults(batch[k])]))]]
  /\ UNCHANGED <<isUpdating, startupTimer, geckoColl, oracleVars, nonPipeVars>>

\* getTokensBasicInfo, lines 212 and 260-263: aggregate3 fails, {} is
\* returned
InfoFails(r) ==
  /\ run[r].pc = "info"
  /\ run' = [run EXCEPT ![r] = [@ EXCEPT !.pc = "pools", !.info = <<>>]]
  /\ UNCHANGED <<isUpdating, startupTimer, geckoColl, oracleVars, nonPipeVars>>

\* findWethPoolsBatched, lines 337-396, and lines 862-867: the factory
\* answers, getPoolsData is called
PoolsAnswer(r) ==
  /\ run[r].pc = "pools"
  /\ LET batch == BatchOf(run[r].addresses, PipeBatchSize, run[r].i) IN
     run' = [run EXCEPT ![r] =
               [@ EXCEPT !.pc = "pdata",
                         !.pools = [k \in 1..Len(batch) |-> PoolsFound(batch[k])]]]
  /\ UNCHANGED <<isUpdating, startupTimer, geckoColl, oracleVars, nonPipeVars>>

\* findWethPoolsBatched, lines 337 and 397-400, and lines 862-867: the
\* aggregate3 call is rejected, empty maps are returned, and getPoolsData
\* is called with no pool
PoolsFail(r) ==
  /\ run[r].pc = "pools"
  /\ LET batch == BatchOf(run[r].addresses, PipeBatchSize, run[r].i) IN
     run' = [run EXCEPT ![r] =
               [@ EXCEPT !.pc = "pdata", !.pools = [k \in 1..Len(batch) |-> <<>>]]]
  /\ UNCHANGED <<isUpdating, startupTimer, geckoColl, oracleVars, nonPipeVars>>

\* the tokenBasicInfo of the batch with the pools put on it (lines 870-882):
\* a token of the batch without basic info is passed over
InfoWithPools(info, batch, pools) ==
  [k \in 1..Len(info) |->
     WithPools(info[k],
       pools[CHOOSE b \in 1..Len(batch) : ToLowerCase(batch[b]) = info[k].address])]

\* getPoolsData, lines 454-491, lines 870-885 and fetchWethPrice to its
\* first await: the pools' state is read, the pools go on the tokens,
\* enrichWithPoolData asks for the WETH price
PoolDataAnswer(r) ==
  /\ run[r].pc = "pdata"
  /\ LET batch == BatchOf(run[r].addresses, PipeBatchSize, run[r].i)
         poolDataMap == Flatten(run[r].pools)
         poolAddresses == [k \in 1..Len(poolDataMap) |-> poolDataMap[k].address]
     IN   LET results == Flatten([k \in 1..Len(poolDataMap) |->
                                    PoolResults(poolDataMap[k].token0)])
              enriched == DecodePools(poolAddresses, poolDataMap, results)
              pools == [b \in 1..Len(batch) |->
                          [j \in 1..Len(run[r].pools[b]) |->
                             PoolRecord(enriched, run[r].pools[b][j].address)]]
          IN run' = [run EXCEPT ![r] =
                       [@ EXCEPT !.pc = "weth",
                                 !.info = InfoWithPools(run[r].info, batch, pools)]]
  /\ WethCall(r)
  /\ UNCHANGED <<isUpdating, startupTimer, geckoColl, nonPipeVars>>

\* getPoolsData, lines 454 and 492-495, lines 870-885 and fetchWethPrice
\* to its first await: the aggregate3 call is rejected, the records are
\* returned as discovery left them and go on the tokens
PoolDataFails(r) ==
  /\ run[r].pc = "pdata"
  /\ Flatten(run[r].pools) # <<>>
  /\ LET batch == BatchOf(run[r].addresses, PipeBatchSize, run[r].i)
     IN run' = [run EXCEPT ![r] =
                  [@ EXCEPT !.pc = "weth",
                            !.info = InfoWithPools(run[r].info, batch, run[r].pools)]]
  /\ WethCall(r)
  /\ UNCHANGED <<isUpdating, startupTimer, geckoColl, nonPipeVars>>

\* enrichWithPoolData, lines 614-718, and processAndStoreTokensData, lines
\* 727-776: with the WETH price the tokens are enriched, the tokenDocs are
\* built and the bulkWrite is sent; without tokens, nothing is written
EnrichAndStore(r) ==
  /\ run[r].pc = "weth" /\ weth[r].pc = "done"
  /\ weth' = WethReturned(r)
  /\ IF Len(run[r].info) = 0
     THEN AfterStore(r)
     ELSE /\ run' = [run EXCEPT ![r] =
                [@ EXCEPT !.pc = "store", !.date = now,
                   !.ops = [k \in 1..Len(run[r].info) |->
                              TokenDoc(EnrichToken(run[r].info[k], weth[r].ret), now)]]]
          /\ UNCHANGED isUpdating
  /\ UNCHANGED <<now, cachedWethPrice, wethPriceLastUpdated, priceReadAt>>
  /\ UNCHANGED <<startupTimer, geckoColl, nonPipeVars>>

\* GeckoData.bulkWrite, lines 776-784 and 889-896: the store applies the
\* operations
GeckoBulkWrite(r) ==
  /\ run[r].pc = "store"
  /\ geckoColl' = BulkUpsert(geckoColl, run[r].ops, run[r].date, Len(run[r].ops))
  /\ AfterStore(r)
  /\ UNCHANGED <<startupTimer, oracleVars, nonPipeVars>>

\* GeckoData.bulkWrite fails (lines 785-788): the operations before the
\* failing one are applied
GeckoBulkWriteFails(r) ==
  /\ run[r].pc = "store"
  /\ \E n \in 0..(Len(run[r].ops) - 1) :
       geckoColl' = BulkUpsert(geckoColl, run[r].ops, run[r].date, n)
  /\ AfterStore(r)
  /\ UNCHANGED <<startupTimer, oracleVars, nonPipeVars>>

\* lines 892-895 and the next turn of the loop
BatchDelayDone(r) ==
  /\ run[r].pc = "delay"
  /\ run' = [run EXCEPT ![r] = BatchBegins(r, @, run[r].i + 1)]
  /\ UNCHANGED <<isUpdating, startupTimer, geckoColl, oracleVars, nonPipeVars>>

\* the pool read of a fetchWethPrice call answers or fails
WethAnswer(c, prices) ==
  /\ WethReadOk(c, prices)
  /\ UNCHANGED <<pipeVars, nonPipeVars>>

WethFails(c) ==
  /\ WethReadFails(c)
  /\ UNCHANGED <<pipeVars, nonPipeVars>>

Tick(maxNow) ==
  /\ ClockTick(maxNow)
  /\ UNCHANGED <<pipeVars, nonPipeVars>>

\* module load (line 8) and initializeDataFetching (lines 791-831): the
\* timer is set, cron is scheduled, no document is stored yet
PipeInit ==
  /\ isUpdating = FALSE
  /\ startupTimer = TRUE
  /\ run = [r \in RunIds |-> IdleRun]
  /\ geckoColl = <<>>

\* a caller of fetchWethPrice other than the pipeline of the model
CallerCalls(c) ==
  /\ WethCall(c)
  /\ UNCHANGED <<pipeVars, nonPipeVars>>

CallerReturns(c) ==
  /\ weth[c].pc = "done"
  /\ weth' = WethReturned(c)
  /\ UNCHANGED <<now, cachedWethPrice, wethPriceLastUpdated, priceReadAt>>
  /\ UNCHANGED <<pipeVars, nonPipeVars>>

----------------------------------------------------------------------------
(* The pure functions on the inputs Init draws. *)

\* the liquidity a pool of the selection model reports: undefined, or the
\* decimal string of an unsigned integer
Liquidities ==
  {Undefined, <<0>>, <<9>>, <<1, 0>>, <<1, 0, 0>>, <<5, 0, 0, 0, 0, 0>>}
\* and its tick: undefined, or an integer
Ticks == {Undefined, <<7>>}

\* the lists of n pools of the token at TokenAddr(1), as getPoolsData
\* leaves them: pool k is the k-th discovered
PoolLists(n) ==
  {[k \in 1..n |->
      [DiscoveredPool(PoolAddr(k), TokenAddr(1), ToLowerCase(WETH_ADDRESS), 3000)
         EXCEPT !.liquidity = l[k], !.tick = t[k],
                !.sqrtPriceX96 = IF t[k] = Undefined THEN Undefined ELSE <<1>>]] :
     l \in [1..n -> Liquidities], t \in [1..n -> Ticks]}

SelectInit ==
  /\ poolList \in UNION {PoolLists(n) : n \in 0..MaxPools}
  /\ mainPool = [done |-> FALSE, sel |-> NoSelection]

\* enrichWithPoolData, lines 630-660, on the token's pools
Select ==
  /\ ~mainPool.done
  /\ mainPool' = [done |-> TRUE, sel |-> SelectMainPool(poolList)]
  /\ UNCHANGED <<poolList, callResults, decoded, schedVars, oracleVars, pipeVars, scanVars>>

\* the outcomes of one call of an aggregate3 batch: it failed, it succeeded,
\* it succeeded with return data decodeFunctionResult throws on
Outcomes == {"failed", "ok", "undecodable"}

\* what the call at index j (0-based) of a batch of calls-per-entity calls
\* returned: every value carries j, so that a decoded value tells which
\* result it was taken from
ReturnData(calls, j) ==
  IF calls = POOL_CALLS /\ j % calls \in {0, 1} THEN <<"address", j, TRUE>>
  ELSE IF calls = POOL_CALLS /\ j % calls = 4 THEN <<j, j>>
  ELSE <<j>>

ResultsOf(calls, outcomes) ==
  [k \in 1..Len(outcomes) |->
     Result(outcomes[k] # "failed",
            IF outcomes[k] = "ok" THEN ReturnData(calls, k - 1) ELSE Undefined,
            outcomes[k] = "undecodable")]

\* the n entities of a batch: tokens as Token.find gives them, pools as
\* discovery found them
Entities(kind, n) ==
  [k \in 1..n |-> IF kind = "tokens" THEN TokenAddr(k) ELSE PoolAddr(k)]

\* poolDataMap for the n pools, its records in the reverse of the order of
\* poolAddresses
PoolMap(n) ==
  [k \in 1..n |->
     DiscoveredPool(PoolAddr(n + 1 - k), TokenAddr(n + 1 - k),
                    ToLowerCase(WETH_ADDRESS), 3000)]

CallsPer(kind) == IF kind = "tokens" THEN TOKEN_CALLS ELSE POOL_CALLS

DecodeInit ==
  /\ \E kind \in {"tokens", "pools"}, n \in 0..MaxEntities :
       \E outcomes \in [1..(CallsPer(kind) * n) -> Outcomes] :
         callResults = [kind |-> kind, n |-> n,
                        results |-> ResultsOf(CallsPer(kind), outcomes)]
  /\ decoded = [done |-> FALSE, out |-> <<>>]

\* getTokensBasicInfo, lines 214-259, on the results of its aggregate3
DecodeTokenBatch ==
  /\ callResults.kind = "tokens" /\ ~decoded.done
  /\ decoded' = [done |-> TRUE,
                 out |-> DecodeTokens(Entities("tokens", callResults.n), callResults.results)]
  /\ UNCHANGED <<poolList, mainPool, callResults, schedVars, oracleVars, pipeVars, scanVars>>

\* getPoolsData, lines 456-491, on the results of its aggregate3
DecodePoolBatch ==
  /\ callResults.kind = "pools" /\ ~decoded.done
  /\ decoded' = [done |-> TRUE,
                 out |-> DecodePools(Entities("pools", callResults.n),
                                     PoolMap(callResults.n), callResults.results)]
  /\ UNCHANGED <<poolList, mainPool, callResults, schedVars, oracleVars, pipeVars, scanVars>>

----------------------------------------------------------------------------
(* Specifications. *)

\* no pure function has been applied
PureIdle ==
  /\ poolList = <<>>
  /\ mainPool = [done |-> FALSE, sel |-> NoSelection]
  /\ callResults = [kind |-> "none", n |-> 0, results |-> <<>>]
  /\ decoded = [done |-> FALSE, out |-> <<>>]

Init == SchedInit /\ OracleInit /\ PipeInit /\ ScanInit /\ PureIdle

\* the scheduler with passes overlapping in every way
Next ==
  \/ ResetTick
  \/ Startup(SchedTokens)
  \/ Discover(SchedTokens)
  \/ \E p \in Passes : PassStep(p, 1..SchedCap)

Spec == Init /\ [][Next]_vars

\* the scheduler under the assumptions of its liveness claims: every cron
\* job keeps firing, the reset timer keeps firing, the store and the price
\* API answer every request, and the API has data for every address asked
ApiAnswersAll(p, caps) ==
  /\ ApiAnswer(p, caps)
  /\ pass'[p].pc = "write"
  /\ {o[1] : o \in pass'[p].ops} =
       Range(IF pass[p].kind = "prio" THEN pass[p].buf
             ELSE BatchAt(pass[p].buf, pass[p].i))

\* the steps of the pass in slot p when nothing fails
LivePassStep(p, caps) ==
  \/ RankQuery(p)
  \/ RankResume(p)
  \/ TokenQuery(p)
  \/ PriceQuery(p)
  \/ ApiAnswersAll(p, caps)
  \/ BulkWrite(p)
  \/ DelayDone(p)

LiveNext ==
  \/ ResetTick
  \/ Startup(MaxTokens)
  \/ Discover(MaxTokens)
  \/ \E p \in 1..LivePasses : StartPriority(p)
  \/ \E p \in 1..LivePasses : StartRotation(p)
  \/ \E p \in 1..LivePasses : StartFull(p)
  \/ \E p \in 1..LivePasses : LivePassStep(p, 1..SchedCap)

LiveFairness ==
  /\ WF_vars(ResetTick)
  /\ WF_vars(Startup(MaxTokens))
  /\ SF_vars(\E p \in 1..LivePasses : StartPriority(p))
  /\ SF_vars(\E p \in 1..LivePasses : StartRotation(p))
  /\ SF_vars(\E p \in 1..LivePasses : StartFull(p))
  /\ \A p \in 1..LivePasses : WF_vars(LivePassStep(p, 1..SchedCap))

LiveSpec == Init /\ [][LiveNext]_vars /\ LiveFairness

\* the scheduler with its passes one after another, over tokens the price
\* API values differently: what a ranking and a rotation select
RankNext ==
  \/ ResetTick
  \/ Startup(MaxTokens)
  \/ Discover(MaxTokens)
  \/ \E p \in 1..LivePasses : PassStep(p, 1..MaxCap)

RankSpec == Init /\ [][RankNext]_vars

\* the enrichment pipeline: the run of the startup timer and the runs of
\* cron, the fetchWethPrice calls they and initializeDataFetching make,
\* with the node answering every aggregated pool read
PipeNext ==
  \/ CronTick
  \/ CronTickSkipped
  \/ StartupTimerFires
  \/ \E r \in RunIds : TokenFind(r)
  \/ \E r \in RunIds : TokenFindFails(r)
  \/ \E r \in RunIds : InfoAnswer(r)
  \/ \E r \in RunIds : InfoFails(r)
  \/ \E r \in RunIds : PoolsAnswer(r)
  \/ \E r \in RunIds : PoolDataAnswer(r)
  \/ \E r \in RunIds : EnrichAndStore(r)
  \/ \E r \in RunIds : GeckoBulkWrite(r)
  \/ \E r \in RunIds : GeckoBulkWriteFails(r)
  \/ \E r \in RunIds : BatchDelayDone(r)
  \/ \E c \in Callers : WethAnswer(c, {PipeWethPrice})
  \/ \E c \in Callers : WethFails(c)
  \/ Tick(StartTime + PipeTicks * ClockStep)

PipeSpec == Init /\ [][PipeNext]_vars

\* fetchWethPrice under any callers, over more than one TTL
OracleNext ==
  \/ \E c \in RunIds : CallerCalls(c)
  \/ \E c \in RunIds : CallerReturns(c)
  \/ \E c \in Callers : WethAnswer(c, WethPrices)
  \/ \E c \in Callers : WethFails(c)
  \/ Tick(StartTime + OracleTicks * ClockStep)

OracleSpec == Init /\ [][OracleNext]_vars

\* the selection of the authoritative pool, on every list of pools
SelectSpecInit ==
  /\ SchedInit /\ OracleInit /\ PipeInit /\ ScanInit /\ SelectInit
  /\ callResults = [kind |-> "none", n |-> 0, results |-> <<>>]
  /\ decoded = [done |-> FALSE, out |-> <<>>]

SelectSpec == SelectSpecInit /\ [][Select]_vars

\* the decoders, on every batch of results
DecodeSpecInit ==
  /\ SchedInit /\ OracleInit /\ PipeInit /\ ScanInit /\ DecodeInit
  /\ poolList = <<>>
  /\ mainPool = [done |-> FALSE, sel |-> NoSelection]

DecodeNext == DecodeTokenBatch \/ DecodePoolBatch

DecodeSpec == DecodeSpecInit /\ [][DecodeNext]_vars

----------------------------------------------------------------------------
(* Claims about the refresh scheduler. *)

\* C1: between two resets of the counter at most 30 price-API calls are
\* issued, however the priority, rotation and full passes and the reset
\* timer interleave: the counter, and the number of fetchPriceData calls
\* since the last reset, never exceed 30.
C1_BudgetNeverExceeded ==
  /\ apiCallsThisMinute <= PRIORITY_CALL_LIMIT
  /\ issued <= PRIORITY_CALL_LIMIT

\* the quota is used up while two passes are waiting for the price API
C1_Witness ==
  /\ issued = PRIORITY_CALL_LIMIT
  /\ \E p, q \in Passes : p # q /\ pass[p].pc = "api" /\ pass[q].pc = "api"

Tracked(t) == t \in Range(tokenColl)
InTop(t) == t \in Range(topTokens)
\* a rotation pass (cron's, or the one inside fullTokenUpdate) has selected
\* t and its fetch of t's batch is at the price API
RotationFetches(t) ==
  \E p \in Passes :
    /\ pass[p].kind \in {"rot", "full"}
    /\ pass[p].pc = "api"
    /\ t \in Range(BatchAt(pass[p].buf, pass[p].i))

\* C3: every tracked token that is not in the priority list is eventually
\* selected and fetched by a rotation pass (or enters the priority list),
\* provided the ticks and the reset keep firing and the API keeps answering.
C3_EveryTokenEventuallyFetched ==
  \A t \in Tokens :
    (Tracked(t) /\ ~InTop(t)) ~> (RotationFetches(t) \/ InTop(t))

\* the step of p is the assignment of updateTopTokensList, line 205
Ranks(p) == pass[p].pc = "rankResume" /\ pass'[p].pc # "rankResume"

\* C10 as amended: the priority list changes only at the assignment of a
\* ranking (updateTopTokensList), run by a full ranking pass or by a
\* priority refresh pass that found the list empty when it started; a
\* priority refresh pass that found it non-empty and a rotation pass never
\* change it.
C10_ListChangesOnlyInRanking ==
  [][topTokens' # topTokens =>
       \E p \in Passes :
         /\ Ranks(p)
         /\ \/ pass[p].kind = "full"
            \/ pass[p].kind = "prio" /\ pass[p].nin = {}]_vars

\* a priority pass that found the list empty is about to put a ranking in
\* place of a list that a full pass has set meanwhile
C10_Witness ==
  \E p \in Passes :
    /\ pass[p].kind = "prio" /\ pass[p].pc = "rankResume"
    /\ topTokens # <<>> /\ pass[p].buf # topTokens

\* C10 as stated: the priority list changes only inside a full ranking pass
\* (fullTokenUpdate), never inside a priority refresh or a rotation pass.
C10_ListChangesOnlyInFullPass ==
  [][topTokens' # topTokens =>
       \E p \in Passes : Ranks(p) /\ pass[p].kind = "full"]_vars

----------------------------------------------------------------------------
(* Claims about the enrichment pipeline. *)

\* C2: at most one run of updateTokenData is active at any time: a trigger
\* that arrives while a run is active, the cron tick or the startup timer,
\* does not start a second run.
C2_AtMostOneRunActive == ~(Active("startup") /\ Active("cron"))

\* the document of coll with contractAddress a
DocOf(coll, a) == coll[CHOOSE k \in Matching(coll, a) : TRUE]

\* the step is the successful bulkWrite of run r
Writes(r) ==
  /\ run[r].pc = "store" /\ run'[r].pc # "store"
  /\ geckoColl' = BulkUpsert(geckoColl, run[r].ops, run[r].date, Len(run[r].ops))

\* the step ends the work of run r on a batch
BatchOver(r) ==
  /\ run[r].pc \in {"weth", "store"}
  /\ run'[r].pc \notin {"weth", "store"}

\* coll holds one record of the token at a, with no pool, price, liquidity
\* or market cap
ZeroRecord(coll, a) ==
  /\ Cardinality(Matching(coll, a)) = 1
  /\ DocOf(coll, a).pool_count = 0
  /\ DocOf(coll, a).price_usd = Zero
  /\ DocOf(coll, a).liquidity_usd = Zero
  /\ DocOf(coll, a).market_cap = Zero

Reapplies(coll, tokenDoc) ==
  /\ Matching(coll, tokenDoc.contractAddress) # {}
  /\ \A f \in DOMAIN tokenDoc \ {"lastUpdated"} :
       DocOf(coll, tokenDoc.contractAddress)[f] = tokenDoc[f]

\* a successful bulk write leaves one record per lower-cased address, and a
\* record the same data is applied to again keeps every field outside
\* the set except
UpsertIdempotent(except) ==
  \A r \in RunIds :
    Writes(r) =>
      \A k \in 1..Len(run[r].ops) :
        LET tokenDoc == run[r].ops[k]
            a == tokenDoc.contractAddress
        IN /\ a = ToLowerCase(a)
           /\ Cardinality(Matching(geckoColl', a)) = 1
           /\ Reapplies(geckoColl, tokenDoc) =>
                \A f \in DOMAIN DocOf(geckoColl, a) \ except :
                  DocOf(geckoColl', a)[f] = DocOf(geckoColl, a)[f]

\* C9 as amended: applying processAndStoreTokensData again with identical
\* token data, from the same or an overlapping run, leaves exactly one
\* record per lower-cased contract address, and every field other than the
\* lastUpdated and updatedAt timestamps keeps its value.
C9_UpsertKeepsAllButTimestamps ==
  [][UpsertIdempotent({"lastUpdated", "updatedAt"})]_vars

\* both tokens are stored, one of them written again after it was created,
\* while both runs are active
C9_Witness ==
  /\ Len(geckoColl) >= 2
  /\ \E k \in 1..Len(geckoColl) : geckoColl[k].updatedAt > geckoColl[k].createdAt
  /\ Active("startup") /\ Active("cron")

\* C9 as stated: ... every field other than lastUpdated has the same value
\* after the second application as after the first.
C9_UpsertKeepsAllButLastUpdated ==
  [][UpsertIdempotent({"lastUpdated"})]_vars

----------------------------------------------------------------------------
(* Claims about the WETH price oracle. *)

\* C4: a price fetchWethPrice returns in a call whose pool read did not
\* fail was read in that call, or was cached by a read that began less than
\* WETH_PRICE_CACHE_TTL before the call, also when calls overlap and their
\* reads complete out of order.
C4_PriceNeverOlderThanTTL ==
  \A c \in Callers :
    (weth[c].pc = "done" /\ weth[c].how # "fallback") =>
      \/ weth[c].how = "read" /\ weth[c].ret \in WethPrices
      \/ /\ weth[c].how = "cache" /\ weth[c].ret \in WethPrices
         /\ weth[c].readAt <= weth[c].at
         /\ weth[c].at - weth[c].readAt < WETH_PRICE_CACHE_TTL

\* a call returns a cached price read ten minutes before, while a call that
\* began before that read is still waiting for its own
C4_Witness ==
  \E c, d \in Callers :
    /\ weth[c].pc = "done" /\ weth[c].how = "cache"
    /\ weth[c].at - weth[c].readAt = WETH_PRICE_CACHE_TTL - ClockStep
    /\ weth[d].pc = "read" /\ weth[d].at < weth[c].readAt

\* C5 as amended: if the pool read of the first-ever fetchWethPrice call
\* fails, the call returns the fallback 1911 when no price is cached at
\* that moment, and the price an overlapping call has cached meanwhile
\* otherwise; it returns a number, never 0 or null.
C5_FirstCallFallsBack ==
  (weth["prefetch"].pc = "done" /\ weth["prefetch"].how = "fallback") =>
    /\ weth["prefetch"].ret # Null
    /\ IF weth["prefetch"].cold
       THEN weth["prefetch"].ret = FALLBACK_WETH_PRICE
       ELSE weth["prefetch"].ret \in WethPrices /\ cachedWethPrice # Null

\* the first call has failed on a cold cache and returned 1911
C5_Witness ==
  /\ weth["prefetch"].pc = "done" /\ weth["prefetch"].how = "fallback"
  /\ weth["prefetch"].cold /\ weth["prefetch"].ret = FALLBACK_WETH_PRICE

\* C5 as stated: if the pool read of the first-ever fetchWethPrice call
\* (cold cache) fails, the call returns the fallback constant 1911.
C5_FirstCallReturns1911 ==
  (weth["prefetch"].pc = "done" /\ weth["prefetch"].how = "fallback") =>
    weth["prefetch"].ret = FALLBACK_WETH_PRICE

----------------------------------------------------------------------------
(* Claims about the pure functions. *)

Liq(k) == BigIntOf(poolList[k].liquidity)
\* the pools of the list with liquidity and tick defined
UsablePools == {k \in 1..Len(poolList) : ~Unusable(poolList[k])}

\* the pool selected is the first of the largest among the candidates
FirstLargest(best, candidates) ==
  /\ best \in candidates
  /\ \A k \in candidates : Liq(best) >= Liq(k) /\ (Liq(k) = Liq(best) => best <= k)
  /\ \A k \in UsablePools : Liq(best) >= Liq(k)
  /\ mainPool.sel.mainPoolAddress = poolList[best].address
  /\ mainPool.sel.mainPoolTick = poolList[best].tick[1]

\* C7 as amended: for any list of a token's pools in which a pool with
\* liquidity and tick defined has liquidity above zero, enrichWithPoolData
\* selects a pool whose liquidity, compared as an exact integer, is greater
\* than or equal to that of every other such pool, the first in discovery
\* order among equals; when no such pool has liquidity above zero it
\* selects none.
C7_SelectsFirstLargestPositive ==
  mainPool.done =>
    LET positive == {k \in UsablePools : Liq(k) > 0}
    IN IF positive = {}
       THEN mainPool.sel.bestPool = 0 /\ mainPool.sel.mainPoolAddress = Undefined
       ELSE FirstLargest(mainPool.sel.bestPool, positive)

\* "500000" is selected over "100" before it and over an equal after it
C7_Witness ==
  /\ mainPool.done /\ Len(poolList) = 3 /\ mainPool.sel.bestPool = 2
  /\ UsablePools = {1, 2, 3}
  /\ poolList[1].liquidity = <<1, 0, 0>>
  /\ poolList[2].liquidity = <<5, 0, 0, 0, 0, 0>>
  /\ poolList[3].liquidity = <<5, 0, 0, 0, 0, 0>>

\* C7 as stated: for any list of pools (with a pool that has liquidity and
\* tick defined) the first of the largest such pools is selected.
C7_SelectsFirstLargest ==
  (mainPool.done /\ UsablePools # {}) =>
    FirstLargest(mainPool.sel.bestPool, UsablePools)

\* field f (0-based) of entry i (0-based) of the decoders' output
DecodedField(i, f) ==
  IF callResults.kind = "tokens"
  THEN LET e == decoded.out[i + 1]
       IN CASE f = 0 -> e.name [] f = 1 -> e.symbol
            [] f = 2 -> e.decimals [] OTHER -> e.totalSupply
  ELSE LET e == PoolRecord(decoded.out, PoolAddr(i + 1))
       IN CASE f = 0 -> e.token0 [] f = 1 -> e.token1 [] f = 2 -> e.fee
            [] f = 3 -> e.liquidity [] OTHER -> <<e.sqrtPriceX96, e.tick>>

\* what the field holds when its call is not decoded
UndecodedField(i, f) ==
  IF callResults.kind = "tokens"
  THEN CASE f = 0 -> Undefined [] f = 1 -> Undefined [] f = 2 -> 18 [] OTHER -> <<0>>
  ELSE LET e == PoolRecord(PoolMap(callResults.n), PoolAddr(i + 1))
       IN CASE f = 0 -> e.token0 [] f = 1 -> e.token1 [] f = 2 -> e.fee
            [] f = 3 -> Undefined [] OTHER -> <<Undefined, Undefined>>

\* what the field holds when it is decoded from the result at index j
FieldFrom(f, j) ==
  IF callResults.kind = "tokens"
  THEN CASE f = 0 -> <<j>> [] f = 1 -> <<j>> [] f = 2 -> j [] OTHER -> DigitsOf(j)
  ELSE CASE f = 0 -> <<"address", j, FALSE>> [] f = 1 -> <<"address", j, FALSE>>
         [] f = 2 -> j [] f = 3 -> DigitsOf(j) [] OTHER -> <<DigitsOf(j), <<j>>>>

\* C8: batched reads are decoded positionally and in input order: with k
\* calls per entity, the fields of the i-th entity are taken from results
\* k*i .. k*i+k-1, the output holds one entry per input entity carrying that
\* entity's own values, and a result with success = false is left undecoded
\* (the field keeps its default) without raising.
C8_DecodedPositionally ==
  decoded.done =>
    LET calls == CallsPer(callResults.kind)
        res == callResults.results
    IN /\ Len(decoded.out) = callResults.n
       /\ \A i \in 0..(callResults.n - 1) :
            /\ callResults.kind = "tokens" =>
                  decoded.out[i + 1].address = TokenAddr(i + 1)
            /\ callResults.kind = "pools" =>
                  Cardinality({k \in 1..Len(decoded.out) :
                                 decoded.out[k].address = PoolAddr(i + 1)}) = 1
            /\ \A f \in 0..(calls - 1) :
                 LET j == calls * i + f
                 IN /\ DecodedField(i, f) \in {UndecodedField(i, f), FieldFrom(f, j)}
                    /\ ~res[j + 1].success => DecodedField(i, f) = UndecodedField(i, f)
                    /\ (\A g \in 0..f : Decodes(res[calls * i + g + 1]))
                          => DecodedField(i, f) = FieldFrom(f, j)

\* two pools are decoded, the liquidity call of the second failed, the
\* first has its own liquidity and the second its own tick
C8_Witness ==
  /\ decoded.done /\ callResults.kind = "pools" /\ callResults.n = 2
  /\ ~callResults.results[9].success
  /\ PoolRecord(decoded.out, PoolAddr(1)).liquidity = DigitsOf(3)
  /\ PoolRecord(decoded.out, PoolAddr(2)).liquidity = Undefined
  /\ PoolRecord(decoded.out, PoolAddr(2)).tick = <<9>>

----------------------------------------------------------------------------
(* Claims about what the passes of the refresh scheduler select and store. *)

\* C11: after a ranking (updateTopTokensList) that completes without a
\* store error, the priority list holds at most PRIORITY_TOKEN_COUNT
\* addresses, and they are the persisted price records with the highest
\* market capitalization, the valuation the refresh passes store with them.
C11_ListIsTopByMarketCap ==
  [][\A p \in Passes :
       Ranks(p) =>
         /\ Len(topTokens') = Min(TopCount, Cardinality(Priced(priceColl)))
         /\ Range(topTokens') \subseteq Priced(priceColl)
         /\ \A t \in Range(topTokens') :
              \A u \in Priced(priceColl) \ Range(topTokens') :
                priceColl[t].fdv_usd >= priceColl[u].fdv_usd]_vars

\* the step is the start of a priority pass within the quota, with a
\* priority list to refresh
PriorityStarts(p) ==
  /\ StartPriority(p)
  /\ apiCallsThisMinute < PRIORITY_CALL_LIMIT
  /\ topTokens # <<>>

\* the step is the successful bulkWrite of the priority pass in slot p
PriorityWrites(p) == pass[p].kind = "prio" /\ BulkWrite(p)

\* C12: a priority refresh pass that starts with apiCallsThisMinute < 30 and
\* a non-empty priority list issues exactly one price-API call, for exactly
\* the addresses of the priority list, and every record it upserts is
\* flagged priority = true.
C12_PriorityPassFetchesListAndFlags ==
  [][\A p \in Passes :
       /\ PriorityStarts(p) =>
            /\ pass'[p].pc = "api" /\ pass'[p].buf = topTokens
            /\ apiCallsThisMinute' = apiCallsThisMinute + 1
       /\ (pass[p].kind = "prio" /\ pass[p].pc \in {"api", "write"}) =>
            /\ pass'[p].pc \in {"api", "write", "idle"}
            /\ pass'[p].pc = "api" => pass[p].pc = "api"
       /\ PriorityWrites(p) =>
            \A o \in pass[p].ops :
              /\ priceColl'[o[1]].has
              /\ "priority" \in DOMAIN priceColl'[o[1]]
              /\ priceColl'[o[1]].priority = TRUE]_vars

\* the price records of the tokens outside the priority list top
NonPriorityRecords(top) == Priced(priceColl) \ top

\* the selections the store's answer to the oldest-first query of the pass
\* in slot p can lead to (tokensToUpdate, lines 299-301)
Selections(p) ==
  {TokensToUpdate(old, pass[p].buf, pass[p].i) :
     old \in OldestFirst(priceColl, pass[p].nin, pass[p].i)}

\* no token of sel is in the priority list top, and no unselected price
\* record outside top is older than a selected one
OldestFirstOutside(sel, top) ==
  /\ Range(sel) \cap top = {}
  /\ \A s \in Range(sel) \cap Priced(priceColl) :
       \A u \in NonPriorityRecords(top) \ Range(sel) :
         priceColl[u].last_updated >= priceColl[s].last_updated

C14_SelectionSizedToBudget ==
  [][\A p \in Passes :
       pass[p].pc = "tpFind" =>
         \A sel \in Selections(p) : Len(sel) <= Max(0, pass[p].i)]_vars

\* the step is an invocation of fetchPriceData by the pass in slot p
Invokes(p) == pass'[p].pc = "api" /\ pass[p].pc # "api"

\* C15: apiCallsThisMinute always equals the number of fetchPriceData
\* invocations since the last reset of the timer: every invocation adds
\* exactly 1 before the request is sent, whether or not the request
\* succeeds, nothing else raises it, and only the reset timer lowers it, and
\* only to 0.
C15_CounterCountsInvocations ==
  [][/\ apiCallsThisMinute = issued
     /\ apiCallsThisMinute' = issued'
     /\ IF \E p \in Passes : Invokes(p)
        THEN apiCallsThisMinute' =
               apiCallsThisMinute + Cardinality({p \in Passes : Invokes(p)})
        ELSE apiCallsThisMinute' = apiCallsThisMinute \/ ResetTick
     /\ apiCallsThisMinute' < apiCallsThisMinute =>
          ResetTick /\ apiCallsThisMinute' = 0]_vars

\* two calls are counted: the request of one has been answered, that of the
\* other is still at the price API
C15_Witness ==
  /\ apiCallsThisMinute = 2 /\ issued = 2
  /\ \E p, q \in Passes : pass[p].pc = "api" /\ pass[q].pc = "write"

\* the step leaves the counter, the priority list and the stored records
\* as they are
SchedulerStateKept ==
  UNCHANGED <<apiCallsThisMinute, issued, topTokens, tokenColl, priceColl>>

\* C16: a priority pass that starts with apiCallsThisMinute >= 30 and a
\* rotation pass that starts with apiCallsThisMinute >= 28 (cron's, or the
\* one fullTokenUpdate calls after its ranking) return normally without
\* issuing a price-API call and leave the counter, the priority list and
\* every persisted record unchanged.
C16_ExhaustedPassesSkip ==
  [][\A p \in Passes :
       /\ (apiCallsThisMinute >= PRIORITY_CALL_LIMIT /\ Free(p)) =>
            ~(pass'[p].kind = "prio" /\ pass'[p].pc # "idle")
       /\ (apiCallsThisMinute >= PRIORITY_CALL_LIMIT /\ StartPriority(p)) =>
            pass'[p] = IdlePass /\ SchedulerStateKept
       /\ (apiCallsThisMinute >= ROTATION_CALL_LIMIT /\ Free(p)) =>
            ~(pass'[p].kind = "rot" /\ pass'[p].pc # "idle")
       /\ (apiCallsThisMinute >= ROTATION_CALL_LIMIT /\ StartRotation(p)) =>
            pass'[p] = IdlePass /\ SchedulerStateKept
       /\ ( /\ apiCallsThisMinute >= ROTATION_CALL_LIMIT
            /\ pass[p].kind = "full"
            /\ pass[p].pc \in {"rankFind", "rankResume"}
            /\ pass'[p].pc # pass[p].pc /\ pass'[p].pc # "rankResume" ) =>
            /\ pass'[p] = IdlePass
            /\ UNCHANGED <<apiCallsThisMinute, issued, tokenColl, priceColl>>]_vars

\* the quota is used up, the cron jobs are scheduled and the slot is free:
\* the priority pass and the rotation pass that start now are skipped
C16_Witness ==
  /\ apiCallsThisMinute = PRIORITY_CALL_LIMIT /\ booted /\ Free(1)
  /\ topTokens # <<>> /\ Priced(priceColl) # {}

----------------------------------------------------------------------------
(* Claims about the states of the WETH price cache. *)

\* the step is the call of fetchWethPrice by c; the pool read of c's call
\* succeeds; it fails
Calls(c) == weth[c].pc = "idle" /\ weth'[c].pc # "idle"
ReadSucceeds(c) == weth[c].pc = "read" /\ weth'[c].pc = "done" /\ weth'[c].how = "read"
ReadFails(c) == weth[c].pc = "read" /\ weth'[c].pc = "done" /\ weth'[c].how = "fallback"

\* Cached-Fresh: a price is cached and its age is below the TTL
CachedFresh ==
  cachedWethPrice # Null /\ now - wethPriceLastUpdated < WETH_PRICE_CACHE_TTL

\* C17: when a price is cached and its age is below the TTL, fetchWethPrice
\* returns the cached value and issues no pool read; when the cache is cold
\* or stale it issues a pool read and, on success, caches the new price with
\* the timestamp of the call, so that the next call within the TTL of that
\* timestamp returns that same value.
C17_CacheStates ==
  [][\A c \in Callers :
       /\ (Calls(c) /\ CachedFresh) =>
            /\ weth'[c].pc = "done" /\ weth'[c].how = "cache"
            /\ weth'[c].ret = cachedWethPrice
            /\ UNCHANGED <<cachedWethPrice, wethPriceLastUpdated>>
       /\ (Calls(c) /\ ~CachedFresh) =>
            /\ weth'[c].pc = "read" /\ weth'[c].at = now
            /\ UNCHANGED <<cachedWethPrice, wethPriceLastUpdated>>
       /\ ReadSucceeds(c) =>
            /\ weth'[c].ret \in WethPrices
            /\ cachedWethPrice' = weth'[c].ret
            /\ wethPriceLastUpdated' = weth[c].at
            /\ now - weth[c].at < WETH_PRICE_CACHE_TTL => CachedFresh']_vars

\* a call has read and cached a price ten minutes after it began, and a
\* later call, within the TTL of that call, has returned the same price from
\* the cache
C17_Witness ==
  \E c, d \in Callers :
    /\ weth[d].pc = "done" /\ weth[d].how = "read"
    /\ weth[c].pc = "done" /\ weth[c].how = "cache"
    /\ weth[c].ret = weth[d].ret /\ weth[c].readAt = weth[d].at
    /\ weth[c].at = weth[d].at + 2 * ClockStep

\* C18: if the pool read fails in a fetchWethPrice call made when a price
\* was cached earlier, fresh or stale, the call returns that last cached
\* price without raising and leaves the cached price and its timestamp
\* unchanged, so that the next call attempts the read again.
C18_FailureKeepsCache ==
  [][\A c \in Callers :
       (ReadFails(c) /\ cachedWethPrice # Null) =>
         /\ weth'[c].ret = cachedWethPrice
         /\ UNCHANGED <<cachedWethPrice, wethPriceLastUpdated>>
         /\ ~CachedFresh => ~CachedFresh']_vars

\* a call made when the cached price was stale has failed and returned it,
\* and the cache is still stale
C18_Witness ==
  \E c \in Callers :
    /\ weth[c].pc = "done" /\ weth[c].how = "fallback" /\ ~weth[c].cold
    /\ weth[c].ret = cachedWethPrice /\ weth[c].ret \in WethPrices
    /\ weth[c].at - wethPriceLastUpdated >= WETH_PRICE_CACHE_TTL
    /\ ~CachedFresh

----------------------------------------------------------------------------
(* Claims about failures in the batched reads. *)

\* the result of call f (0-based) of entity i (0-based) of the batch
ResultOf(i, f) == callResults.results[CallsPer(callResults.kind) * i + f + 1]
\* the call succeeded and its return data cannot be decoded
Undecodable(r) == r.success /\ r.bad

\* field f of entity i is taken from its own result, or has its default
TakenFromOwn(i, f) ==
  DecodedField(i, f) = FieldFrom(f, CallsPer(callResults.kind) * i + f)
HasDefault(i, f) == DecodedField(i, f) = UndecodedField(i, f)

\* C19 as amended: if one call of an entity in an aggregated batch fails
\* (success = false), only that field takes its default; if the return data
\* of a call cannot be decoded, that field and the fields of the later calls
\* of the same entity take their defaults; the fields of the earlier calls
\* of the entity and all fields of sibling entities are still taken from
\* their own successful results.
C19_FailureStaysInEntity ==
  decoded.done =>
    \A i \in 0..(callResults.n - 1) :
      \A f \in 0..(CallsPer(callResults.kind) - 1) :
        IF /\ Decodes(ResultOf(i, f))
           /\ \A g \in 0..(f - 1) : ~Undecodable(ResultOf(i, g))
        THEN TakenFromOwn(i, f)
        ELSE HasDefault(i, f)

\* the name of the first token cannot be decoded and its symbol, though
\* read, has its default; its sibling, whose decimals call failed, has its
\* own name, symbol and supply
C19_Witness ==
  /\ decoded.done /\ callResults.kind = "tokens" /\ callResults.n = 2
  /\ Undecodable(ResultOf(0, 0)) /\ Decodes(ResultOf(0, 1))
  /\ decoded.out[1].symbol = Undefined
  /\ ~ResultOf(1, 2).success
  /\ decoded.out[2].name = <<4>> /\ decoded.out[2].symbol = <<5>>
  /\ decoded.out[2].decimals = 18 /\ decoded.out[2].totalSupply = <<7>>

\* C19 as stated: if one call of an entity fails or cannot be decoded, only
\* that field takes its default; every other field is taken from its own
\* successful result.
C19_OnlyFailedFieldDefaults ==
  decoded.done =>
    \A i \in 0..(callResults.n - 1) :
      \A f \in 0..(CallsPer(callResults.kind) - 1) :
        IF Decodes(ResultOf(i, f)) THEN TakenFromOwn(i, f) ELSE HasDefault(i, f)

----------------------------------------------------------------------------
(* Pool discovery: findWethPoolsBatched, lines 267-401 *)

\* line 57: the fee tiers of Uniswap V3
UNISWAP_FEE_TIERS == <<100, 500, 3000, 10000>>

\* the fee tiers the model looks up, and the pools the factory may name
MaxTiers == 2
MaxFactoryPools == 2

FeeTiers == SubSeq(UNISWAP_FEE_TIERS, 1, Min(MaxTiers, Len(UNISWAP_FEE_TIERS)))

\* ethers.ZeroAddress, line 354
ZeroAddress == <<"zero", 0, FALSE>>

\* line 352: decodeFunctionResult('getPool', returnData)[0], the address in
\* checksum form; the zero address has no letters to put in upper case
DecodeAddress(data) == IF data[1] = "zero" THEN ZeroAddress ELSE <<data[1], data[2], TRUE>>

\* lines 285-324: the lookups made for one token, two for each fee tier
LookupsPerToken == 2 * Len(FeeTiers)

\* lines 303-308 and 319-324: callMetadata[j], j counted from 0
CallMetadata(tokenAddresses, j) ==
  LET token == ToLowerCase(tokenAddresses[(j \div LookupsPerToken) + 1])
      fee == FeeTiers[((j % LookupsPerToken) \div 2) + 1]
  IN IF j % 2 = 0
     THEN [tokenAddress |-> token, token0 |-> token,
           token1 |-> ToLowerCase(WETH_ADDRESS), fee |-> fee]
     ELSE [tokenAddress |-> token, token0 |-> ToLowerCase(WETH_ADDRESS),
           token1 |-> token, fee |-> fee]

\* lines 271-277: the maps before any result is read
NoPoolsYet(tokenAddresses) ==
  [tokenPoolsMap |-> [token \in {ToLowerCase(a) : a \in Range(tokenAddresses)} |-> <<>>],
   poolDataMap |-> <<>>]

\* line 364: poolDataMap[poolAddress] = record
PutPool(poolDataMap, record) ==
  IF \E k \in 1..Len(poolDataMap) : poolDataMap[k].address = record.address
  THEN [k \in 1..Len(poolDataMap) |->
          IF poolDataMap[k].address = record.address THEN record ELSE poolDataMap[k]]
  ELSE Append(poolDataMap, record)

\* line 360 with the test of the list left out
Includes_Never(list, poolAddress) == FALSE

\* line 360: tokenPoolsMap[token].includes(poolAddress)
Includes(list, poolAddress) == \E k \in 1..Len(list) : list[k] = poolAddress

\* line 354: poolAddress !== ethers.ZeroAddress
IsPool(poolAddress) == poolAddress # ZeroAddress

\* lines 346-376: what a result adds to the maps, given the metadata of its
\* call
RecordResult(result, metadata, maps) ==
  LET poolAddress == DecodeAddress(result.data)
      token == metadata.tokenAddress
  IN IF /\ result.success
        /\ ~result.bad
        /\ IsPool(poolAddress)
        /\ ~Includes(maps.tokenPoolsMap[token], poolAddress)
     THEN [tokenPoolsMap |-> [maps.tokenPoolsMap EXCEPT ![token] = Append(@, poolAddress)],
           poolDataMap |-> PutPool(maps.poolDataMap,
                                   DiscoveredPool(poolAddress, metadata.token0,
                                                  metadata.token1, metadata.fee))]
     ELSE maps

\* lines 346-376: what the result j (counted from 0) adds to the maps
RecordLookup(tokenAddresses, results, j, maps) ==
  RecordResult(results[j + 1], CallMetadata(tokenAddresses, j), maps)

\* lines 340-377: the results read in order from the result j on
RECURSIVE RecordFrom(_, _, _, _)
RecordFrom(tokenAddresses, results, j, maps) ==
  IF j >= Len(results) THEN maps
  ELSE RecordFrom(tokenAddresses, results, j + 1,
                  RecordLookup(tokenAddresses, results, j, maps))

\* findWethPoolsBatched, lines 267-396, on the results of its aggregate3
FindWethPools(tokenAddresses, results) ==
  RecordFrom(tokenAddresses, results, 0, NoPoolsYet(tokenAddresses))

\* what one getPool lookup may come to: the call fails, its return data
\* do not decode, the factory has no pool, the factory names a pool
LookupOutcomes ==
  {<<"failed">>, <<"undecodable">>, <<"zero">>} \cup {<<"pool", k>> : k \in 1..MaxFactoryPools}

\* the aggregate3 result of a lookup with outcome o
LookupResult(o) ==
  IF o[1] = "failed" THEN Result(FALSE, <<>>, FALSE)
  ELSE IF o[1] = "undecodable" THEN Result(TRUE, <<>>, TRUE)
  ELSE IF o[1] = "zero" THEN Result(TRUE, <<"zero", 0, FALSE>>, FALSE)
  ELSE Result(TRUE, <<"pool", o[2], FALSE>>, FALSE)

\* a batch of tokens and the results of the lookups made for it
FindInit ==
  /\ \E n \in 0..MaxEntities :
       \E outcomes \in [1..(LookupsPerToken * n) -> LookupOutcomes] :
         callResults = [kind |-> "getPool", n |-> n,
                        results |-> [j \in 1..(LookupsPerToken * n) |->
                                       LookupResult(outcomes[j])]]
  /\ decoded = [done |-> FALSE, out |-> <<>>]

\* findWethPoolsBatched, lines 267-396
FindPools ==
  /\ callResults.kind = "getPool" /\ ~decoded.done
  /\ decoded' = [done |-> TRUE,
                 out |-> FindWethPools(Entities("tokens", callResults.n),
                                       callResults.results)]
  /\ UNCHANGED <<poolList, mainPool, callResults, schedVars, oracleVars, pipeVars, scanVars>>

\* pool discovery, on every batch of lookup results
FindSpecInit ==
  /\ SchedInit /\ OracleInit /\ PipeInit /\ ScanInit /\ FindInit
  /\ poolList = <<>>
  /\ mainPool = [done |-> FALSE, sel |-> NoSelection]

FindSpec == FindSpecInit /\ [][FindPools]_vars

\* the pools the lookups of the token at position i (from 1) name
PoolsNamed(i) ==
  {DecodeAddress(callResults.results[j].data) :
     j \in {j \in 1..Len(callResults.results) :
              /\ (j - 1) \div LookupsPerToken = i - 1
              /\ callResults.results[j].success
              /\ ~callResults.results[j].bad
              /\ callResults.results[j].data[1] # "zero"}}

\* the lookups of the token at position i (from 1) that find no pool
ZeroLookups(i) ==
  {j \in 1..Len(callResults.results) :
     /\ (j - 1) \div LookupsPerToken = i - 1
     /\ callResults.results[j].success
     /\ ~callResults.results[j].bad
     /\ callResults.results[j].data[1] = "zero"}

\* the list the result holds for the token at position i (from 1)
PoolListOf(i) == decoded.out.tokenPoolsMap[ToLowerCase(TokenAddr(i))]

\* C20: in the result of findWethPoolsBatched every token of the batch has
\* a pool list, no list holds an address twice or the zero address, and a
\* list holds exactly the pools the lookups of its token name, each once
\* however many lookups or orderings returned it; a lookup that returns the
\* zero address adds nothing and does not end the function
C20_PoolListsDistinctNonZero ==
  (callResults.kind = "getPool" /\ decoded.done) =>
    /\ DOMAIN decoded.out.tokenPoolsMap =
         {ToLowerCase(TokenAddr(i)) : i \in 1..callResults.n}
    /\ \A i \in 1..callResults.n :
         /\ \A a, b \in 1..Len(PoolListOf(i)) :
              PoolListOf(i)[a] = PoolListOf(i)[b] => a = b
         /\ ZeroAddress \notin Range(PoolListOf(i))
         /\ Range(PoolListOf(i)) = PoolsNamed(i)

\* a token whose two orderings of the first fee tier return the same pool,
\* whose other lookups return that pool again or the zero address, and
\* whose list holds the pool once
C20_Witness ==
  /\ callResults.kind = "getPool" /\ decoded.done
  /\ \E i \in 1..callResults.n :
       /\ callResults.results[LookupsPerToken * (i - 1) + 1].data = <<"pool", 1, FALSE>>
       /\ callResults.results[LookupsPerToken * (i - 1) + 2].data = <<"pool", 1, FALSE>>
       /\ callResults.results[LookupsPerToken * (i - 1) + 1].success
       /\ callResults.results[LookupsPerToken * (i - 1) + 2].success
       /\ ZeroLookups(i) # {}
       /\ PoolListOf(i) = <<PoolAddr(1)>>

\* token discovery over a growing chain, with every failure of the node
\* and of the store
ScanNext ==
  \/ ChainGrows
  \/ ScanStart
  \/ BlockAnswer
  \/ BlockFails
  \/ LogsAnswer
  \/ LogsFail
  \/ TokensWritten
  \/ TokensWriteFails

ScanSpec == Init /\ [][ScanNext]_vars

----------------------------------------------------------------------------
(* C23 *)

\* C23: every getLogs query of a discovery pass is for the blocks from
\* max(0, currentBlock - 20000) to currentBlock, the block number the pass
\* read, the k-th query being for the k-th of the three factories; no
\* query reaches a block older than that window, whatever the block the
\* pass before it read; and a pass that has read the block number and gone
\* past its queries has queried all three factories
C23_QueriesTrailingWindow ==
  /\ Len(scan.queries) <= Len(FACTORY_ADDRESSES)
  /\ \A k \in 1..Len(scan.queries) :
       /\ scan.queries[k].address = FACTORY_ADDRESSES[k]
       /\ scan.queries[k].toBlock = scan.currentBlock
       /\ scan.queries[k].fromBlock = Max(0, scan.currentBlock - 20000)
       /\ scan.queries[k].fromBlock >= scan.currentBlock - 20000
       /\ scan.queries[k].fromBlock >= 0
  /\ scan.currentBlock <= chainHead
  /\ scan.pc = "logs" => Len(scan.queries) = scan.f
  /\ scan.pc = "write" => Len(scan.queries) = 3
  /\ (scan.pc = "idle" /\ scan.queries # <<>>) => Len(scan.queries) = 3

\* a pass that has queried the three factories more than a window after
\* the pass before it: the blocks between the two windows are not queried
C23_Witness ==
  /\ scan.pc = "idle"
  /\ Len(scan.queries) = 3
  /\ scan.last > 0
  /\ scan.queries[3].fromBlock > scan.last
  /\ scan.queries[3].fromBlock = scan.currentBlock - 20000

\* and a pass on a chain shorter than the window: it queries from block 0
C23_WitnessClamped ==
  /\ Len(scan.queries) = 3
  /\ scan.currentBlock > 0 /\ scan.currentBlock < 20000
  /\ scan.queries[1].fromBlock = 0

\* the passes of the two services under every failure of the node, the
\* price API and the stores. The services are separate processes with a
\* store each: a behaviour follows one of them from its start, the refresh
\* scheduler (SchedTurn), its token discovery (ScanTurn), or the runs
\* cron starts in the enrichment pipeline (PipeTurn)
SchedQuiet == ~booted /\ \A p \in Passes : Free(p)
ScanQuiet == scan = NoScan /\ chainHead = 0
PipeQuiet == PipeInit /\ OracleInit

SchedTurn == ScanQuiet /\ PipeQuiet
ScanTurn == SchedQuiet /\ PipeQuiet
PipeTurn == SchedQuiet /\ ScanQuiet /\ tokenColl = <<>>

FaultNext ==
  \/ SchedTurn /\ ResetTick
  \/ SchedTurn /\ Startup(SchedTokens)
  \/ SchedTurn /\ Discover(SchedTokens)
  \/ \E p \in 1..LivePasses : SchedTurn /\ StartPriority(p)
  \/ \E p \in 1..LivePasses : SchedTurn /\ StartRotation(p)
  \/ \E p \in 1..LivePasses : SchedTurn /\ StartFull(p)
  \/ \E p \in 1..LivePasses : SchedTurn /\ RankQuery(p)
  \/ \E p \in 1..LivePasses : SchedTurn /\ RankResume(p)
  \/ \E p \in 1..LivePasses : SchedTurn /\ RankQueryFails(p)
  \/ \E p \in 1..LivePasses : SchedTurn /\ TokenQuery(p)
  \/ \E p \in 1..LivePasses : SchedTurn /\ PriceQuery(p)
  \/ \E p \in 1..LivePasses : SchedTurn /\ QueryFails(p)
  \/ \E p \in 1..LivePasses : SchedTurn /\ ApiAnswer(p, 1..SchedCap)
  \/ \E p \in 1..LivePasses : SchedTurn /\ ApiRateLimited(p)
  \/ \E p \in 1..LivePasses : SchedTurn /\ BulkWrite(p)
  \/ \E p \in 1..LivePasses : SchedTurn /\ BulkWriteFails(p)
  \/ \E p \in 1..LivePasses : SchedTurn /\ DelayDone(p)
  \/ ScanTurn /\ ChainGrows
  \/ ScanTurn /\ ScanStart
  \/ ScanTurn /\ BlockAnswer
  \/ ScanTurn /\ BlockFails
  \/ ScanTurn /\ LogsAnswer
  \/ ScanTurn /\ LogsFail
  \/ ScanTurn /\ TokensWritten
  \/ ScanTurn /\ TokensWriteFails
  \/ PipeTurn /\ CronTick
  \/ PipeTurn /\ CronTickSkipped
  \/ PipeTurn /\ TokenFind("cron")
  \/ PipeTurn /\ TokenFindFails("cron")
  \/ PipeTurn /\ InfoAnswer("cron")
  \/ PipeTurn /\ InfoFails("cron")
  \/ PipeTurn /\ PoolsAnswer("cron")
  \/ PipeTurn /\ PoolsFail("cron")
  \/ PipeTurn /\ PoolDataAnswer("cron")
  \/ PipeTurn /\ PoolDataFails("cron")
  \/ PipeTurn /\ EnrichAndStore("cron")
  \/ PipeTurn /\ GeckoBulkWrite("cron")
  \/ PipeTurn /\ GeckoBulkWriteFails("cron")
  \/ PipeTurn /\ BatchDelayDone("cron")
  \/ \E c \in {"prefetch", "cron"} : PipeTurn /\ WethAnswer(c, {PipeWethPrice})
  \/ \E c \in {"prefetch", "cron"} : PipeTurn /\ WethFails(c)
  \/ PipeTurn /\ Tick(StartTime + PipeTicks * ClockStep)

FaultSpec == Init /\ [][FaultNext]_vars

----------------------------------------------------------------------------
(* C21 *)

\* C21: no pass of the scheduler (updatePriorityTokens,
\* updateNonPriorityTokens, fullTokenUpdate), no call of fetchAndStoreTokens
\* and no updateTokenData run ever ends by throwing, whatever queries,
\* price requests, node reads and writes fail during it; and nothing a
\* failed pass leaves behind keeps the next tick from running: the
\* in-flight flag of the pipeline is set only while the run of cron is
\* active
C21_PassesCompleteNormally ==
  /\ \A p \in Passes : ~pass[p].rejected
  /\ \A r \in RunIds : ~run[r].rejected
  /\ ~scan.rejected
  /\ isUpdating => Active("cron")

\* a run of cron in which the pool discovery of the token that has a pool
\* failed has ended: its document was written without a pool, the flag is
\* down and the next tick can start a run
C21_Witness ==
  /\ ~isUpdating /\ ~Active("cron")
  /\ \E k \in 1..Len(geckoColl) :
       /\ geckoColl[k].contractAddress = TokenAddr(2)
       /\ geckoColl[k].pool_count = 0
  /\ ENABLED CronTick

----------------------------------------------------------------------------
(* C22 *)

\* the token of the stored document k has a pool on the chain of the model
PoolOnChain(k) == HasPool(geckoColl[k].contractAddress)

\* C22: a failure of the whole aggregate3 call of the pool discovery is
\* not taken for a batch without pools: the document of a token that has a
\* pool on the chain, once stored with its pool and price, is never
\* replaced by one with pool_count = 0 and price_usd = 0 (the chain of the
\* model never loses a pool, so only a failed discovery can report none)
C22_FailedDiscoveryNotPersisted ==
  [][\A k \in 1..Len(geckoColl) :
       (PoolOnChain(k) /\ geckoColl[k].pool_count > 0 /\ geckoColl[k].price_usd # Zero)
         => ~(geckoColl'[k].pool_count = 0 /\ geckoColl'[k].price_usd = Zero)]_vars

----------------------------------------------------------------------------
(* C24 *)

\* the request the pass in slot p is waiting for the answer of
RequestOf(ps, p) ==
  IF ps[p].kind = "prio" THEN ps[p].buf ELSE BatchAt(ps[p].buf, ps[p].i)

\* C24: when the price API answers a price fetch of a pass with a
\* rate-limit response, the pass stays with that fetch: it does not go on
\* to the next batch, to a write or to its end, but (after the delay) has
\* the same request in flight again
C24_RateLimitedFetchIsRetried ==
  [][\A p \in Passes :
       ApiRateLimited(p) =>
         /\ pass'[p].pc = "api"
         /\ RequestOf(pass', p) = RequestOf(pass, p)]_vars

----------------------------------------------------------------------------
(* Tick-to-price conversion: fetchWethPrice, lines 105-135, and            *)
(* calculatePriceFromTick, lines 499-524.                                  *)
(* A positive double is kept as the integer nearest to its logarithm to    *)
(* the base 1.0001, so that 1.0001^tick is tick, a product is a sum and a  *)
(* quotient a difference; with it goes the form the power was computed in. *)
(* One percent is 99 of these units. Every tick of a pool lies within      *)
(* +-887272, where neither form of the power leaves the range of a double. *)

\* the logarithm of 10 to the base 1.0001 (Math.pow(10, n) is n times it)
LOG10_TICKS == 23027
\* line 129: referenceTick
REFERENCE_TICK == -200768
\* line 130: referencePrice = 1911, whose logarithm to the base 1.0001 is
REFERENCE_PRICE == 75558

\* the ticks and the decimals the conversions are applied to
ModelTicks ==
  {-887272, -200768, -200000, -1001, -1000, -999, -1, 0, 1, 999, 1000, 1001,
   200000, 887272}
ModelDecimals == {6, 8, 18}

\* Math.pow(1.0001, tick), lines 122, 131 and 513
PowForm(tick) == [form |-> "pow", value |-> tick]
\* Math.exp(tick * Math.log(1.0001)), lines 510-511
ExpLogForm(tick) == [form |-> "explog", value |-> tick]
\* Math.pow(10, n), line 517
Pow10(n) == n * LOG10_TICKS

\* calculatePriceFromTick, lines 508-514
TickPower(tick) ==
  IF Abs(tick) > 1000 THEN ExpLogForm(tick) ELSE PowForm(tick)

\* calculatePriceFromTick, lines 499-519
CalculatePriceFromTick(tick, decimals0, decimals1) ==
  LET price == TickPower(tick)
      decimalAdjustment == Pow10(decimals1 - decimals0)
  IN [form |-> price.form, value |-> price.value + decimalAdjustment]

\* fetchWethPrice, lines 121-135
WethPriceFromTick(tick) ==
  LET tickPower == PowForm(tick)
      referencePower == PowForm(REFERENCE_TICK)
      constantFactor == REFERENCE_PRICE - referencePower.value
  IN [form |-> tickPower.form, value |-> tickPower.value + constantFactor]

\* a tick, and the decimals of the two tokens of its pair
PriceInit ==
  /\ \E tick \in ModelTicks, decimals0 \in ModelDecimals, decimals1 \in ModelDecimals :
       callResults = [kind |-> "tick", n |-> tick, results |-> <<decimals0, decimals1>>]
  /\ decoded = [done |-> FALSE, out |-> <<>>]

\* fetchWethPrice, lines 105-135, on the tick of slot0
OracleConverts ==
  /\ callResults.kind = "tick" /\ ~decoded.done
  /\ decoded' = [done |-> TRUE,
                 out |-> [by |-> "fetchWethPrice",
                          price |-> WethPriceFromTick(callResults.n)]]
  /\ UNCHANGED <<poolList, mainPool, callResults, schedVars, oracleVars, pipeVars, scanVars>>

\* calculatePriceFromTick(tick, decimals0, decimals1)
CalculatorConverts ==
  /\ callResults.kind = "tick" /\ ~decoded.done
  /\ decoded' = [done |-> TRUE,
                 out |-> [by |-> "calculatePriceFromTick",
                          price |-> CalculatePriceFromTick(callResults.n,
                                      callResults.results[1], callResults.results[2])]]
  /\ UNCHANGED <<poolList, mainPool, callResults, schedVars, oracleVars, pipeVars, scanVars>>

\* the two conversions, on every tick and pair of decimals
PriceSpecInit ==
  /\ SchedInit /\ OracleInit /\ PipeInit /\ ScanInit /\ PriceInit
  /\ poolList = <<>>
  /\ mainPool = [done |-> FALSE, sel |-> NoSelection]

PriceNext == OracleConverts \/ CalculatorConverts

PriceSpec == PriceSpecInit /\ [][PriceNext]_vars

\* a conversion has been made
Converted == callResults.kind = "tick" /\ decoded.done

\* C25: for tick = -200768 the price computed is 1911 within 1% (75558
\* within 99, as logarithms to the base 1.0001), by fetchWethPrice, and by
\* calculatePriceFromTick when called with decimals 18 and 6
C25_CalibrationPointReproduced ==
  (/\ Converted
   /\ callResults.n = -200768
   /\ \/ decoded.out.by = "fetchWethPrice"
      \/ callResults.results = <<18, 6>>)
    => /\ decoded.out.price.value >= 75558 - 99
       /\ decoded.out.price.value <= 75558 + 99

\* C26: every conversion of a tick with |tick| > 1000 is made in the
\* logarithmic form, in the calculator and in the oracle, and the direct
\* power is used only for |tick| <= 1000
C26_LargeTicksUseLogForm ==
  Converted =>
    /\ Abs(callResults.n) > 1000 => decoded.out.price.form = "explog"
    /\ decoded.out.price.form = "pow" => Abs(callResults.n) <= 1000

----------------------------------------------------------------------------
(* C27 *)

\* a priority pass has called fetchPriceData and awaits the answer
PriorityFetchInFlight == \E p \in Passes : pass[p].kind = "prio" /\ pass[p].pc = "api"

\* every priority tick that fires now is skipped for lack of budget (line
\* 216); the skipped pass leaves the state as it was
PriorityTicksSkipped == PriorityBudgetExhausted /\ booted

\* C27: while the reset timer and the priority tick keep firing, a priority
\* pass skipped for lack of budget is followed by a priority pass that
\* issues the price fetch, if the priority list is not empty; and with a
\* non-empty list priority fetches go on happening for ever
C27_SkippedPriorityPassRetried ==
  /\ (PriorityTicksSkipped /\ Len(topTokens) > 0) ~> PriorityFetchInFlight
  /\ (Len(topTokens) > 0) ~> PriorityFetchInFlight

\* the budget is used up with a priority list to fetch and no pass in
\* flight: the priority tick that fires now is skipped
C27_Witness ==
  /\ apiCallsThisMinute >= 30
  /\ Len(topTokens) > 0
  /\ booted
  /\ \A p \in 1..LivePasses : Free(p)

----------------------------------------------------------------------------
(* C28 *)

\* the pass in slot p is a rotation (cron's, or that of a full update) and
\* this step is its call of fetchPriceData
RotationCalls(p) ==
  /\ pass[p].kind \in {"rot", "full"}
  /\ pass[p].pc # "api"
  /\ pass'[p].pc = "api"

\* C28: under every interleaving of passes and resets, a rotation pass
\* calls the price API only in a step that finds apiCallsThisMinute below
\* 28, and that same step counts the call: the check and the increment are
\* one step, so a rotation call never leaves the counter above 28
C28_RotationCallsBelowMargin ==
  [][\A p \in Passes :
       RotationCalls(p) =>
         /\ apiCallsThisMinute < 28
         /\ apiCallsThisMinute' = apiCallsThisMinute + 1
         /\ apiCallsThisMinute' <= 28]_vars

\* a rotation pass has made the call that takes the counter to 28 while
\* another pass is in flight
C28_Witness ==
  \E p, q \in Passes :
    /\ p # q
    /\ pass[p].kind = "rot" /\ pass[p].pc = "api"
    /\ pass[q].pc # "idle"
    /\ apiCallsThisMinute = 28

----------------------------------------------------------------------------
(* Pool discovery request by request: the loop of lines 330-383 *)

\* line 329 has MULTICALL_BATCH_SIZE = 2000; the model's batch makes at most
\* MaxEntities * LookupsPerToken calls, and its requests are cut at this
\* size, so that a batch needs several requests and a request ends between
\* the lookups of one token
MulticallBatchSize == 3

\* ethers.getAddress, line 287: the checksum form of an address
GetAddress(a) == <<a[1], a[2], TRUE>>

\* lines 290-298 and 311-318: the arguments of getPool in calls[j], j
\* counted from 0
GetPoolCall(tokenAddresses, j) ==
  LET checksumToken == GetAddress(ToLowerCase(tokenAddresses[(j \div LookupsPerToken) + 1]))
      fee == FeeTiers[((j % LookupsPerToken) \div 2) + 1]
  IN IF j % 2 = 0
     THEN [tokenA |-> checksumToken, tokenB |-> WETH_ADDRESS, fee |-> fee]
     ELSE [tokenA |-> WETH_ADDRESS, tokenB |-> checksumToken, fee |-> fee]

\* lines 285-325: calls
GetPoolCalls(tokenAddresses) ==
  [j \in 1..(LookupsPerToken * Len(tokenAddresses)) |-> GetPoolCall(tokenAddresses, j - 1)]

\* line 343 without the offset of the request
BatchMetadata_NoOffset(tokenAddresses, i, j) == CallMetadata(tokenAddresses, j)

\* lines 332 and 343: batchMetadata[j] of the request that begins at call i
BatchMetadata(tokenAddresses, i, j) == CallMetadata(tokenAddresses, i + j)

\* lines 340-377: the results of the request that begins at call i, read in
\* order from the result j on
RECURSIVE RecordBatch(_, _, _, _, _)
RecordBatch(tokenAddresses, i, results, j, maps) ==
  IF j >= Len(results) THEN maps
  ELSE RecordBatch(tokenAddresses, i, results, j + 1,
                   RecordResult(results[j + 1], BatchMetadata(tokenAddresses, i, j), maps))

\* the position in FeeTiers of a fee
TierOf(fee) == CHOOSE t \in 1..Len(FeeTiers) : FeeTiers[t] = fee

\* the pair a call asks about: the token at position k of the batch and
\* the tier t, numbered over the batch
PairOf(call) ==
  LET token == IF call.tokenA = WETH_ADDRESS THEN call.tokenB ELSE call.tokenA
  IN (token[2] - 1) * Len(FeeTiers) + TierOf(call.fee)

\* the factory: what getPool returns for a call, the same for both orders
\* of the pair; factory[pair] tells whether the pair has a pool, has none,
\* or the call reverts
FactoryResult(factory, call) ==
  LET pair == PairOf(call)
  IN IF factory[pair] = "pool" THEN Result(TRUE, <<"pool", pair, FALSE>>, FALSE)
     ELSE IF factory[pair] = "none" THEN Result(TRUE, <<"zero", 0, FALSE>>, FALSE)
     ELSE Result(FALSE, <<>>, FALSE)

\* a batch of n tokens and the factory's pools for them; no request made
ChunkInit ==
  /\ \E n \in 0..MaxEntities :
       \E factory \in [1..(Len(FeeTiers) * n) -> {"pool", "none", "reverts"}] :
         /\ callResults = [kind |-> "factory", n |-> n, results |-> factory]
         /\ decoded = [done |-> FALSE, failed |-> FALSE, i |-> 0, requests |-> <<>>,
                       out |-> NoPoolsYet(Entities("tokens", n))]

ChunkTokens == Entities("tokens", callResults.n)

\* one turn of the loop, lines 330-383: the request that begins at call i
\* is sent and answered, its results are recorded, and the loop waits if
\* calls are left
AggregateAnswers ==
  /\ callResults.kind = "factory" /\ ~decoded.done
  /\ decoded.i < Len(GetPoolCalls(ChunkTokens))
  /\ LET i == decoded.i
         batchCalls == JsSlice(GetPoolCalls(ChunkTokens), i, i + MulticallBatchSize)
         results == [j \in 1..Len(batchCalls) |->
                       FactoryResult(callResults.results, batchCalls[j])]
     IN decoded' = [decoded EXCEPT
                      !.requests = Append(@, batchCalls),
                      !.out = RecordBatch(ChunkTokens, i, results, 0, decoded.out),
                      !.i = i + MulticallBatchSize]
  /\ UNCHANGED <<poolList, mainPool, callResults, schedVars, oracleVars, pipeVars, scanVars>>

\* line 337 throws: the request that begins at call i is sent and fails,
\* and the catch of lines 397-400 returns empty maps
AggregateFails ==
  /\ callResults.kind = "factory" /\ ~decoded.done
  /\ decoded.i < Len(GetPoolCalls(ChunkTokens))
  /\ LET i == decoded.i
         batchCalls == JsSlice(GetPoolCalls(ChunkTokens), i, i + MulticallBatchSize)
     IN decoded' = [decoded EXCEPT
                      !.requests = Append(@, batchCalls),
                      !.out = [tokenPoolsMap |-> <<>>, poolDataMap |-> <<>>],
                      !.done = TRUE, !.failed = TRUE]
  /\ UNCHANGED <<poolList, mainPool, callResults, schedVars, oracleVars, pipeVars, scanVars>>

\* lines 385-396: the loop is over and the maps are returned
ReturnMaps ==
  /\ callResults.kind = "factory" /\ ~decoded.done
  /\ decoded.i >= Len(GetPoolCalls(ChunkTokens))
  /\ decoded' = [decoded EXCEPT !.done = TRUE]
  /\ UNCHANGED <<poolList, mainPool, callResults, schedVars, oracleVars, pipeVars, scanVars>>

ChunkSpecInit ==
  /\ SchedInit /\ OracleInit /\ PipeInit /\ ScanInit /\ ChunkInit
  /\ poolList = <<>>
  /\ mainPool = [done |-> FALSE, sel |-> NoSelection]

ChunkNext == AggregateAnswers \/ AggregateFails \/ ReturnMaps

\* pool discovery request by request, on every batch and every factory
ChunkSpec == ChunkSpecInit /\ [][ChunkNext]_vars

----------------------------------------------------------------------------
(* C29 *)

\* the calls sent so far, in the order sent
CallsSent == Flatten(decoded.requests)

\* how often the lookup of token k at the given fee and order has been sent
TimesSent(k, fee, tokenFirst) ==
  Cardinality({c \in 1..Len(CallsSent) :
                 /\ CallsSent[c].fee = fee
                 /\ IF tokenFirst
                    THEN CallsSent[c].tokenA = GetAddress(TokenAddr(k))
                         /\ CallsSent[c].tokenB = WETH_ADDRESS
                    ELSE CallsSent[c].tokenA = WETH_ADDRESS
                         /\ CallsSent[c].tokenB = GetAddress(TokenAddr(k))})

\* the pools the factory has for the token at position k
FactoryPools(k) ==
  {PoolAddr((k - 1) * Len(FeeTiers) + t) :
     t \in {t \in 1..Len(FeeTiers) :
              callResults.results[(k - 1) * Len(FeeTiers) + t] = "pool"}}

\* C29: no aggregated request holds more calls than the request size and no
\* lookup is sent twice; when findWethPoolsBatched returns from its loop,
\* every lookup (token, fee tier, order) of the batch has been sent exactly
\* once, two for each fee tier of each token, and the pool list of every
\* token holds exactly the pools the factory has for that token, also for
\* lookups answered in a later request than the token's first
C29_LookupsOnceAttributedAcrossRequests ==
  callResults.kind = "factory" =>
    /\ \A q \in 1..Len(decoded.requests) :
         Len(decoded.requests[q]) \in 1..MulticallBatchSize
    /\ \A k \in 1..callResults.n, t \in 1..Len(FeeTiers), tokenFirst \in BOOLEAN :
         TimesSent(k, FeeTiers[t], tokenFirst) <= 1
    /\ (decoded.done /\ ~decoded.failed) =>
         /\ Len(CallsSent) = 2 * Len(FeeTiers) * callResults.n
         /\ \A k \in 1..callResults.n, t \in 1..Len(FeeTiers), tokenFirst \in BOOLEAN :
              TimesSent(k, FeeTiers[t], tokenFirst) = 1
         /\ \A k \in 1..callResults.n :
              LET list == decoded.out.tokenPoolsMap[ToLowerCase(TokenAddr(k))]
              IN /\ Range(list) = FactoryPools(k)
                 /\ Len(list) = Cardinality(FactoryPools(k))

\* a batch of two tokens has taken three requests; the lookups of the
\* second token were split over the second and the third, its only pool was
\* found by the third, and the pool is in its list and not in the first
\* token's
C29_Witness ==
  /\ callResults.kind = "factory" /\ callResults.n = 2
  /\ decoded.done /\ ~decoded.failed
  /\ Len(decoded.requests) = 3
  /\ FactoryPools(1) = {}
  /\ FactoryPools(2) = {PoolAddr(2 * Len(FeeTiers))}
  /\ decoded.out.tokenPoolsMap[ToLowerCase(TokenAddr(2))] = <<PoolAddr(2 * Len(FeeTiers))>>
  /\ decoded.out.tokenPoolsMap[ToLowerCase(TokenAddr(1))] = <<>>

----------------------------------------------------------------------------
(* C30 *)

\* enrichWithPoolData finds an authoritative pool for the token
HasMainPool(tokenData) ==
  /\ Len(tokenData.pools) > 0
  /\ SelectMainPool(tokenData.pools).bestPool # 0

\* the liquidity_usd enrichWithPoolData put on the token of operation k of
\* run r, lines 692-706, under the WETH price its price_usd was computed
\* with
ComputedLiquidityUsd(r, k) ==
  EnrichToken(run[r].info[k], run[r].ops[k].price_usd[5]).liquidity_usd

\* C30: when the bulkWrite of a run succeeds, the stored document of every
\* token of the batch that has an authoritative pool holds as liquidity_usd
\* the value enrichWithPoolData computed for the token in that run
C30_ComputedLiquidityStored ==
  [][\A r \in RunIds :
       Writes(r) =>
         \A k \in 1..Len(run[r].ops) :
           HasMainPool(run[r].info[k]) =>
             DocOf(geckoColl', run[r].ops[k].contractAddress).liquidity_usd
               = ComputedLiquidityUsd(r, k)]_vars

----------------------------------------------------------------------------
(* The normalized supply of calculateMarketCap, lines 527-557. A supply   *)
(* is the sequence of its decimal digits, as BigInt reads the string; a   *)
(* division by 10^decimals cuts that sequence.                            *)

\* line 538: totalSupply.length > 15
SUPPLY_DIRECT_DIGITS == 15

\* the supplies of the model: a leading digit, up to MaxSupplyZeros zeros,
\* a digit, and zeros down to the last of the token's decimals
MaxSupplyZeros == 4
SupplyDecimals == {6, 18}

Zeros(n) == [k \in 1..n |-> 0]

\* the digits of a BigInt: no leading zero but for zero itself
RECURSIVE StripZeros(_)
StripZeros(s) ==
  IF Len(s) <= 1 THEN (IF Len(s) = 0 THEN <<0>> ELSE s)
  ELSE IF Head(s) = 0 THEN StripZeros(Tail(s)) ELSE s

\* a / 10n ** d of BigInts, lines 544-545: the quotient without remainder
BigDivPow10(s, d) == IF Len(s) <= d THEN <<0>> ELSE SubSeq(s, 1, Len(s) - d)

\* a % 10n ** d, line 545
BigModPow10(s, d) ==
  StripZeros(IF Len(s) <= d THEN s ELSE SubSeq(s, Len(s) - d + 1, Len(s)))

\* normalizedSupply, lines 536-551: the number whole + num / 10^den
NormalizedSupply(totalSupply, decimals) ==
  IF Len(totalSupply) > SUPPLY_DIRECT_DIGITS
  THEN LET wholePart == BigDivPow10(totalSupply, decimals)
           fractionPart == BigDivPow10(BigModPow10(totalSupply, decimals), decimals)
       IN [whole |-> wholePart, num |-> fractionPart, den |-> 0]
  ELSE [whole |-> BigDivPow10(totalSupply, decimals),
        num |-> BigModPow10(totalSupply, decimals), den |-> decimals]

\* a supply string and the decimals of its token
SupplyInit ==
  /\ \E a \in 1..9, z \in 0..MaxSupplyZeros, b \in 0..9, decimals \in SupplyDecimals,
        cut \in 0..1 :
       callResults = [kind |-> "supply", n |-> decimals,
                      results |-> <<a>> \o Zeros(z) \o <<b>>
                                    \o Zeros(IF cut = 1 THEN 0 ELSE decimals - 1)]
  /\ decoded = [done |-> FALSE, out |-> <<>>]

\* calculateMarketCap, lines 536-551, on the supply
Normalizes ==
  /\ callResults.kind = "supply" /\ ~decoded.done
  /\ decoded' = [done |-> TRUE,
                 out |-> NormalizedSupply(callResults.results, callResults.n)]
  /\ UNCHANGED <<poolList, mainPool, callResults, schedVars, oracleVars, pipeVars, scanVars>>

SupplySpecInit ==
  /\ SchedInit /\ OracleInit /\ PipeInit /\ ScanInit /\ SupplyInit
  /\ poolList = <<>>
  /\ mainPool = [done |-> FALSE, sel |-> NoSelection]

\* the normalization, on every supply and decimals of the model
SupplySpec == SupplySpecInit /\ [][Normalizes]_vars

\* the digits of s * 10^k
TimesPow10(s, k) == IF s = <<0>> THEN s ELSE s \o Zeros(k)

\* C31: for a supply string of more than 15 digits the normalized supply
\* is the exact quotient totalSupply / 10^decimals: its whole part is the
\* whole quotient and its fraction is the remainder over 10^decimals
C31_NormalizedSupplyExact ==
  (callResults.kind = "supply" /\ decoded.done
     /\ Len(callResults.results) > SUPPLY_DIRECT_DIGITS)
    => /\ decoded.out.whole = BigDivPow10(callResults.results, callResults.n)
       /\ TimesPow10(decoded.out.num, callResults.n - decoded.out.den)
            = BigModPow10(callResults.results, callResults.n)

----------------------------------------------------------------------------
(* The price of a token in WETH, enrichWithPoolData lines 663-689, as a   *)
(* logarithm to the base 1.0001.                                          *)

\* line 670: WETH has 18 decimals
WETH_DECIMALS == 18

\* 1 / x, line 685
Reciprocal(x) == -x

\* lines 665-688: priceInWETH of a token with the given decimals, from the
\* tick of its pool with WETH
PriceInWeth(tickNumber, isToken0, decimals) ==
  LET token0Decimals == IF isToken0 THEN decimals ELSE WETH_DECIMALS
      token1Decimals == IF isToken0 THEN WETH_DECIMALS ELSE decimals
  IN IF isToken0
     THEN CalculatePriceFromTick(tickNumber, token0Decimals, token1Decimals).value
     ELSE LET priceInverse ==
                CalculatePriceFromTick(tickNumber, token1Decimals, token0Decimals).value
          IN Reciprocal(priceInverse)

\* a pool of a token with WETH: its tick, the decimals of the token and the
\* position of the token in the pool
MirrorInit ==
  /\ \E tick \in ModelTicks, decimals \in ModelDecimals, isToken0 \in BOOLEAN :
       callResults = [kind |-> "position", n |-> tick, results |-> <<decimals, isToken0>>]
  /\ decoded = [done |-> FALSE, out |-> <<>>]

\* lines 665-688 on the pool, and on the pool with the two assets exchanged,
\* whose tick is the negative
PricesBothWays ==
  /\ callResults.kind = "position" /\ ~decoded.done
  /\ decoded' = [done |-> TRUE,
                 out |-> [priceInWETH |-> PriceInWeth(callResults.n, callResults.results[2],
                                                      callResults.results[1]),
                          mirrored |-> PriceInWeth(-callResults.n, ~callResults.results[2],
                                                   callResults.results[1])]]
  /\ UNCHANGED <<poolList, mainPool, callResults, schedVars, oracleVars, pipeVars, scanVars>>

MirrorSpecInit ==
  /\ SchedInit /\ OracleInit /\ PipeInit /\ ScanInit /\ MirrorInit
  /\ poolList = <<>>
  /\ mainPool = [done |-> FALSE, sel |-> NoSelection]

\* the price of a token in WETH, on every pool and its mirror image
MirrorSpec == MirrorSpecInit /\ [][PricesBothWays]_vars

\* C32: the price in WETH of a token with d decimals is the same whether
\* the token is the first asset of a pool at tick t or the second asset of
\* the pool at tick -t, for every d
C32_PriceIndependentOfPosition ==
  (callResults.kind = "position" /\ decoded.done)
    => decoded.out.priceInWETH = decoded.out.mirrored

----------------------------------------------------------------------------
(* processBatch of the GeckoTerminal service, theGraphDataService.js     *)
(* lines 335-366, with fetchTokenPoolsData (237-268) and                  *)
(* processAndStorePoolsData (271-332) as each token's promise runs them.  *)

\* line 233: PARALLEL_REQUESTS, 3 unless the environment sets it
PARALLEL_REQUESTS == 3

\* the tokens of one call of processBatch (line 232 has batches of 10)
MaxBatchTokens == 5

\* line 339 taking every token that is left
ChunkOf_Rest(tokens, i) == JsSlice(tokens, i, Len(tokens))

\* line 339: tokens.slice(i, i + PARALLEL_REQUESTS)
ChunkOf(tokens, i) == JsSlice(tokens, i, i + PARALLEL_REQUESTS)

\* the tokens processBatch is called with, by their positions
BatchTokens == [k \in 1..callResults.n |-> k]

\* a call of processBatch on n tokens: pc, where the loop is (chunk: line
\* 357 awaits the promises of the chunk, delay: line 362, done: returned);
\* i, the loop index; chunk, the positions of the tokens of the chunk; tok,
\* where the promise of each token is (new: not created, stagger: line 344,
\* fetch: the request of line 240 is out, backoff: line 262, store: line
\* 322, settled); results, the list of line 336; upserts, the addresses
\* whose GeckoData document the call has written
BatchInit ==
  /\ \E n \in 0..MaxBatchTokens :
       /\ callResults = [kind |-> "batch", n |-> n, results |-> <<>>]
       /\ decoded = [done |-> FALSE, pc |-> "loop", i |-> 0, chunk |-> <<>>,
                     tok |-> [k \in 1..n |-> "new"], results |-> <<>>,
                     upserts |-> <<>>]

InBatch == callResults.kind = "batch" /\ ~decoded.done

BatchUnchanged ==
  UNCHANGED <<poolList, mainPool, callResults, schedVars, oracleVars, pipeVars, scanVars>>

\* lines 338-356: the loop goes on, and the promises of the next chunk are
\* created, each waiting for its staggered timer
ChunkStarts ==
  /\ InBatch /\ decoded.pc = "loop"
  /\ decoded.i < Len(BatchTokens)
  /\ LET chunk == ChunkOf(BatchTokens, decoded.i)
     IN decoded' = [decoded EXCEPT
                      !.pc = "chunk", !.chunk = chunk,
                      !.tok = [k \in DOMAIN @ |->
                                 IF k \in Range(chunk) THEN "stagger" ELSE @[k]]]
  /\ BatchUnchanged

\* line 344 and 347, 240: the timer of token k fires and its request is
\* sent
StaggerDone(k) ==
  /\ InBatch /\ decoded.tok[k] = "stagger"
  /\ decoded' = [decoded EXCEPT !.tok[k] = "fetch"]
  /\ BatchUnchanged

\* lines 246-250 and 348: the request of token k is answered with pools,
\* and processAndStorePoolsData sends the upsert
FetchAnswersPools(k) ==
  /\ InBatch /\ decoded.tok[k] = "fetch"
  /\ decoded' = [decoded EXCEPT !.tok[k] = "store"]
  /\ BatchUnchanged

\* lines 250, 267 and 273-276: the request of token k is answered without
\* pools or fails otherwise than by a rate limit; nothing is stored
FetchAnswersNone(k) ==
  /\ InBatch /\ decoded.tok[k] = "fetch"
  /\ decoded' = [decoded EXCEPT !.tok[k] = "settled"]
  /\ BatchUnchanged

\* lines 259-262: the request of token k is answered 429
FetchRateLimited(k) ==
  /\ InBatch /\ decoded.tok[k] = "fetch"
  /\ decoded' = [decoded EXCEPT !.tok[k] = "backoff"]
  /\ BatchUnchanged

\* lines 262-263: the retry-after timer fires and the request is sent again
RetryFires(k) ==
  /\ InBatch /\ decoded.tok[k] = "backoff"
  /\ decoded' = [decoded EXCEPT !.tok[k] = "fetch"]
  /\ BatchUnchanged

\* lines 322-328: the upsert of token k is applied
PoolsStored(k) ==
  /\ InBatch /\ decoded.tok[k] = "store"
  /\ decoded' = [decoded EXCEPT !.tok[k] = "settled",
                                !.upserts = Append(@, ToLowerCase(TokenAddr(k)))]
  /\ BatchUnchanged

\* lines 329-331: the upsert of token k fails, which is logged
PoolsStoreFails(k) ==
  /\ InBatch /\ decoded.tok[k] = "store"
  /\ decoded' = [decoded EXCEPT !.tok[k] = "settled"]
  /\ BatchUnchanged

\* lines 357-363: every promise of the chunk has settled; the results of the
\* chunk are pushed in the order of the chunk, and the loop waits if tokens
\* are left
ChunkSettles ==
  /\ InBatch /\ decoded.pc = "chunk"
  /\ \A j \in 1..Len(decoded.chunk) : decoded.tok[decoded.chunk[j]] = "settled"
  /\ decoded' = [decoded EXCEPT
                   !.results = @ \o [j \in 1..Len(decoded.chunk) |->
                                       [success |-> TRUE,
                                        address |-> TokenAddr(decoded.chunk[j])]],
                   !.pc = IF decoded.i + PARALLEL_REQUESTS < Len(BatchTokens)
                          THEN "delay" ELSE "loop",
                   !.i = IF decoded.i + PARALLEL_REQUESTS < Len(BatchTokens)
                         THEN @ ELSE @ + PARALLEL_REQUESTS]
  /\ BatchUnchanged

\* line 362 and the loop's i += PARALLEL_REQUESTS
ChunkDelayDone ==
  /\ InBatch /\ decoded.pc = "delay"
  /\ decoded' = [decoded EXCEPT !.pc = "loop", !.i = @ + PARALLEL_REQUESTS]
  /\ BatchUnchanged

\* line 365: return results
BatchReturns ==
  /\ InBatch /\ decoded.pc = "loop"
  /\ decoded.i >= Len(BatchTokens)
  /\ decoded' = [decoded EXCEPT !.done = TRUE]
  /\ BatchUnchanged

BatchSpecInit ==
  /\ SchedInit /\ OracleInit /\ PipeInit /\ ScanInit /\ BatchInit
  /\ poolList = <<>>
  /\ mainPool = [done |-> FALSE, sel |-> NoSelection]

BatchNext ==
  \/ ChunkStarts
  \/ \E k \in 1..MaxBatchTokens : k <= callResults.n /\ StaggerDone(k)
  \/ \E k \in 1..MaxBatchTokens : k <= callResults.n /\ FetchAnswersPools(k)
  \/ \E k \in 1..MaxBatchTokens : k <= callResults.n /\ FetchAnswersNone(k)
  \/ \E k \in 1..MaxBatchTokens : k <= callResults.n /\ FetchRateLimited(k)
  \/ \E k \in 1..MaxBatchTokens : k <= callResults.n /\ RetryFires(k)
  \/ \E k \in 1..MaxBatchTokens : k <= callResults.n /\ PoolsStored(k)
  \/ \E k \in 1..MaxBatchTokens : k <= callResults.n /\ PoolsStoreFails(k)
  \/ ChunkSettles
  \/ ChunkDelayDone
  \/ BatchReturns

\* one call of processBatch, its promises interleaved in every way
BatchSpec == BatchSpecInit /\ [][BatchNext]_vars

----------------------------------------------------------------------------
(* C33 *)

\* the tokens whose request is out
RequestsInFlight == {k \in 1..callResults.n : decoded.tok[k] = "fetch"}

\* the promise of token k has been created and has not settled
PromiseRunning(k) == decoded.tok[k] \notin {"new", "settled"}

\* the group of token k: the turn of the loop that takes it
GroupOf(k) == (k - 1) \div PARALLEL_REQUESTS

\* C33: within one call of processBatch at most PARALLEL_REQUESTS requests
\* are in flight at once; a token's promise is created only when every
\* token of the groups before its own has settled; and the list returned
\* has one result for each input token, in the order of the input
C33_BoundedFanOutOrderedResults ==
  callResults.kind = "batch" =>
    /\ Cardinality(RequestsInFlight) <= PARALLEL_REQUESTS
    /\ \A k, h \in 1..callResults.n :
         (decoded.tok[k] # "new" /\ GroupOf(h) < GroupOf(k)) => decoded.tok[h] = "settled"
    /\ decoded.done =>
         /\ Len(decoded.results) = callResults.n
         /\ \A k \in 1..callResults.n : decoded.results[k].address = TokenAddr(k)

\* five tokens: the three requests of the first group are in flight at once
\* and no promise of the second group exists
C33_WitnessFanOut ==
  /\ callResults.kind = "batch" /\ callResults.n = 5
  /\ RequestsInFlight = {1, 2, 3}
  /\ decoded.tok[4] = "new" /\ decoded.tok[5] = "new"

\* five tokens have been processed in two groups and the call has returned
\* five results, in the order of the input although the documents of the
\* first group were written in another order
C33_Witness ==
  /\ callResults.kind = "batch" /\ callResults.n = 5
  /\ decoded.done
  /\ Len(decoded.results) = 5
  /\ decoded.upserts = <<ToLowerCase(TokenAddr(3)), ToLowerCase(TokenAddr(1)),
                         ToLowerCase(TokenAddr(5))>>

----------------------------------------------------------------------------
(* The retries of fetchTokensDataFromGraph (theGraphDataService.js lines  *)
(* 56-92) and fetchTokenPoolsData (lines 237-268).                        *)

\* the retries the model counts; the count stays at this number when more
\* are made (the code keeps no count)
MaxRetries == 12

\* the retry-after headers of the model, in seconds; line 261 takes 60
\* without a header
RetryAfters == {1, 60}

FetchFunctions == {"fetchTokensDataFromGraph", "fetchTokenPoolsData"}

\* a call of one of the two functions: pc, where it is (request: lines 62
\* and 240, backoff: lines 79, 86 and 262); retries, the calls the function
\* has made of itself; wait, the delay of the timer in ms; out, what the
\* call returned
RetryInit ==
  /\ \E fn \in FetchFunctions :
       callResults = [kind |-> "call", n |-> 0, results |-> <<fn>>]
  /\ decoded = [done |-> FALSE, pc |-> "request", retries |-> 0, wait |-> 0,
                out |-> <<>>]

CalledFunction == callResults.results[1]

Requesting == callResults.kind = "call" /\ ~decoded.done /\ decoded.pc = "request"

\* lines 68-70 and 246-248: the provider answers with data
AnswerData ==
  /\ Requesting
  /\ decoded' = [decoded EXCEPT !.done = TRUE, !.out = <<"data">>]
  /\ BatchUnchanged

\* lines 72, 90 and 250, 267: an answer without data, or an error that is
\* neither a connection error nor a rate limit; for fetchTokenPoolsData
\* also a connection error
AnswerEmpty ==
  /\ Requesting
  /\ decoded' = [decoded EXCEPT !.done = TRUE, !.out = <<>>]
  /\ BatchUnchanged

\* lines 77-79: ECONNRESET or ETIMEDOUT in fetchTokensDataFromGraph
ConnectionError ==
  /\ Requesting /\ CalledFunction = "fetchTokensDataFromGraph"
  /\ decoded' = [decoded EXCEPT !.pc = "backoff", !.wait = 5000]
  /\ BatchUnchanged

\* lines 84-86 and 259-262: the provider answers 429
RateLimited ==
  /\ Requesting
  /\ \E retryAfter \in RetryAfters :
       decoded' = [decoded EXCEPT
                     !.pc = "backoff",
                     !.wait = IF CalledFunction = "fetchTokensDataFromGraph"
                              THEN 30000 ELSE retryAfter * 1000]
  /\ BatchUnchanged

\* lines 80, 87 and 263: the timer fires and the function calls itself
RetryTimerFires ==
  /\ callResults.kind = "call" /\ ~decoded.done /\ decoded.pc = "backoff"
  /\ decoded' = [decoded EXCEPT !.pc = "request", !.wait = 0,
                                !.retries = Min(@ + 1, MaxRetries)]
  /\ BatchUnchanged

RetrySpecInit ==
  /\ SchedInit /\ OracleInit /\ PipeInit /\ ScanInit /\ RetryInit
  /\ poolList = <<>>
  /\ mainPool = [done |-> FALSE, sel |-> NoSelection]

\* the provider answers a request
ProviderAnswers == AnswerData \/ AnswerEmpty \/ ConnectionError \/ RateLimited

RetryNext ==
  \/ AnswerData
  \/ AnswerEmpty
  \/ ConnectionError
  \/ RateLimited
  \/ RetryTimerFires

\* a call of either function: every request is answered and every timer
\* fires, and the provider chooses its answers
RetrySpec ==
  /\ RetrySpecInit /\ [][RetryNext]_vars
  /\ WF_vars(ProviderAnswers) /\ WF_vars(RetryTimerFires)

\* C34: a call of fetchTokensDataFromGraph or of fetchTokenPoolsData
\* eventually returns, whatever the provider answers
C34_FetchesReturn ==
  (callResults.kind = "call" /\ ~decoded.done) ~> decoded.done

----------------------------------------------------------------------------
(* One discovery pass log by log: fetchAndStoreTokens, tokenDataService.js *)
(* lines 46-142, with the logs each factory's query returns.              *)

\* the logs of one getLogs answer, and the tokens the logs may name
MaxLogs == 2
MaxLogTokens == 2

\* a log: its data decode to a creation event of token k, the address in
\* checksum form, or do not decode
CreationLogs == {<<"undecodable">>} \cup {<<"created", k>> : k \in 1..MaxLogTokens}

\* what the node answers to the query of one factory: the query fails, or
\* a list of logs
LogAnswers ==
  {<<"fails">>} \cup
  UNION {{<<"logs", logs>> : logs \in [1..n -> CreationLogs]} : n \in 0..MaxLogs}

\* lines 101-109 without the toLowerCase of the address
TokenRecord_AsDecoded(log, factoryAddress) ==
  [contractAddress |-> <<"token", log[2], TRUE>>,
   decimals |-> 18,
   factory |-> ToLowerCase(factoryAddress)]

\* lines 101-109: the record pushed for a log that decoded; tokenAddress,
\* decodedData[0], is in checksum form
TokenRecord(log, factoryAddress) ==
  [contractAddress |-> ToLowerCase(<<"token", log[2], TRUE>>),
   decimals |-> 18,
   factory |-> ToLowerCase(factoryAddress)]

\* lines 85-114: the logs of one answer read in order; one that does not
\* decode is logged and the loop goes on
RECURSIVE RecordsOf(_, _)
RecordsOf(logs, factoryAddress) ==
  IF Len(logs) = 0 THEN <<>>
  ELSE IF Head(logs)[1] = "created"
       THEN <<TokenRecord(Head(logs), factoryAddress)>> \o RecordsOf(Tail(logs), factoryAddress)
       ELSE RecordsOf(Tail(logs), factoryAddress)

\* lines 124-130: updateOne {filter: {contractAddress}, update: {$set:
\* token}, upsert: true} on the Token collection
UpsertToken(coll, token) ==
  IF \E k \in 1..Len(coll) : coll[k].contractAddress = token.contractAddress
  THEN [k \in 1..Len(coll) |->
          IF coll[k].contractAddress = token.contractAddress THEN token ELSE coll[k]]
  ELSE Append(coll, token)

\* line 133: Token.bulkWrite, the first n operations applied in order
RECURSIVE BulkWriteTokens(_, _, _)
BulkWriteTokens(coll, tokens, n) ==
  IF n = 0 THEN coll
  ELSE UpsertToken(BulkWriteTokens(coll, tokens, n - 1), tokens[n])

\* a pass: answers, what the node will answer for each factory; and the
\* pass, at its getBlockNumber (line 58): f, the factory being queried;
\* tokens, the array of line 66; stored, the Token collection, empty or
\* with the first token as an older pass stored it
DiscoveryInit ==
  /\ \E answers \in [1..Len(FACTORY_ADDRESSES) -> LogAnswers] :
       callResults = [kind |-> "discovery", n |-> 0, results |-> answers]
  /\ \E stored \in {<<>>, <<TokenRecord(<<"created", 1>>, FACTORY_ADDRESSES[3])>>} :
       decoded = [done |-> FALSE, pc |-> "block", f |-> 0, tokens |-> <<>>,
                  stored |-> stored, before |-> stored, outcome |-> "none"]

InDiscovery == callResults.kind = "discovery" /\ ~decoded.done

\* lines 69-81 and 120-135 with the factory at position f done: the next
\* factory is queried, or the tokens are written, or the pass returns
AfterFactory(d) ==
  IF d.f < Len(FACTORY_ADDRESSES) THEN [d EXCEPT !.pc = "logs", !.f = d.f + 1]
  ELSE IF Len(d.tokens) > 0 THEN [d EXCEPT !.pc = "write"]
  ELSE [d EXCEPT !.done = TRUE, !.outcome = "ok"]

\* lines 58-81: the block number is read and the first factory is queried
HeadRead ==
  /\ InDiscovery /\ decoded.pc = "block"
  /\ decoded' = AfterFactory(decoded)
  /\ BatchUnchanged

\* lines 58 and 136-138: getBlockNumber fails
HeadReadFails ==
  /\ InDiscovery /\ decoded.pc = "block"
  /\ decoded' = [decoded EXCEPT !.done = TRUE, !.outcome = "error"]
  /\ BatchUnchanged

\* lines 81-114: the query of the factory at f is answered with logs
FactoryLogsAnswer ==
  /\ InDiscovery /\ decoded.pc = "logs"
  /\ callResults.results[decoded.f][1] = "logs"
  /\ decoded' = AfterFactory(
       [decoded EXCEPT !.tokens = @ \o RecordsOf(callResults.results[decoded.f][2],
                                               FACTORY_ADDRESSES[decoded.f])])
  /\ BatchUnchanged

\* lines 81 and 115-117: the query of the factory at f fails
FactoryLogsFail ==
  /\ InDiscovery /\ decoded.pc = "logs"
  /\ callResults.results[decoded.f][1] = "fails"
  /\ decoded' = AfterFactory(decoded)
  /\ BatchUnchanged

\* lines 121-135: Token.bulkWrite applies the operations
TokenBulkWrite ==
  /\ InDiscovery /\ decoded.pc = "write"
  /\ decoded' = [decoded EXCEPT
                   !.stored = BulkWriteTokens(@, decoded.tokens, Len(decoded.tokens)),
                   !.done = TRUE, !.outcome = "ok"]
  /\ BatchUnchanged

\* lines 133 and 136-138: Token.bulkWrite fails after n of its operations
TokenBulkWriteFails ==
  /\ InDiscovery /\ decoded.pc = "write"
  /\ \E n \in 0..(Len(decoded.tokens) - 1) :
       decoded' = [decoded EXCEPT
                     !.stored = BulkWriteTokens(@, decoded.tokens, n),
                     !.done = TRUE, !.outcome = "error"]
  /\ BatchUnchanged

DiscoverySpecInit ==
  /\ SchedInit /\ OracleInit /\ PipeInit /\ ScanInit /\ DiscoveryInit
  /\ poolList = <<>>
  /\ mainPool = [done |-> FALSE, sel |-> NoSelection]

DiscoveryNext ==
  \/ HeadRead
  \/ HeadReadFails
  \/ FactoryLogsAnswer
  \/ FactoryLogsFail
  \/ TokenBulkWrite
  \/ TokenBulkWriteFails

\* one discovery pass, on every answer of the node
DiscoverySpec == DiscoverySpecInit /\ [][DiscoveryNext]_vars

----------------------------------------------------------------------------
(* C35 *)

\* the factories of the pass whose query was answered
AnsweredFactories ==
  {f \in 1..Len(FACTORY_ADDRESSES) : callResults.results[f][1] = "logs"}

\* the tokens named by the logs that decode, over the answered factories
DecodableTokens ==
  UNION {{callResults.results[f][2][j][2] :
            j \in {j \in 1..Len(callResults.results[f][2]) :
                     callResults.results[f][2][j][1] = "created"}} :
         f \in AnsweredFactories}

StoredKeys(coll) == {coll[k].contractAddress : k \in 1..Len(coll)}

\* C35: a pass whose write succeeds, or that found nothing to write, leaves
\* in the Token collection one document, keyed by the lower-cased address,
\* for every token named by a decodable log of a factory whose query was
\* answered, beside the documents the collection held; undecodable logs
\* and failed queries add nothing and do not end the pass
C35_DecodableLogsStored ==
  (callResults.kind = "discovery" /\ decoded.done /\ decoded.outcome = "ok")
    => /\ StoredKeys(decoded.stored) =
            StoredKeys(decoded.before) \cup {TokenAddr(k) : k \in DecodableTokens}
       /\ Len(decoded.stored) = Cardinality(StoredKeys(decoded.stored))

\* the first factory returned an undecodable log and then a creation of
\* token 1, the query of the second failed, the third returned a creation
\* of token 2: the pass stored both tokens in an empty collection
C35_Witness ==
  /\ callResults.kind = "discovery" /\ decoded.done /\ decoded.outcome = "ok"
  /\ callResults.results[1] = <<"logs", <<<<"undecodable">>, <<"created", 1>>>>>>
  /\ callResults.results[2] = <<"fails">>
  /\ callResults.results[3] = <<"logs", <<<<"created", 2>>>>>>
  /\ decoded.before = <<>>
  /\ StoredKeys(decoded.stored) = {TokenAddr(1), TokenAddr(2)}

----------------------------------------------------------------------------
(* C36 *)

\* the step begins a run of updateTokenData for cron
CronRunBegins == run'["cron"].pc = "find" /\ run["cron"].pc # "find"

\* C36: a run of cron begins only in a step that finds isUpdating clear and
\* sets it; while the flag is set no step begins one, so a tick that finds
\* the flag set starts nothing and leaves nothing behind; and the step that
\* ends the active run and clears the flag leaves the run of cron idle, so
\* that only a later tick starts the next run
C36_SkippedTickNotQueued ==
  [][/\ CronRunBegins => (~isUpdating /\ isUpdating' /\ ~Active("cron"))
     /\ isUpdating => ~CronRunBegins
     /\ (isUpdating /\ ~isUpdating') => run'["cron"] = IdleRun]_vars

\* the run of cron is waiting for the pool discovery of its second batch
\* with the flag set: a tick that fires now is skipped, and no tick can
\* start a run
C36_Witness ==
  /\ isUpdating
  /\ run["cron"].pc = "pools" /\ run["cron"].i = 1
  /\ ENABLED CronTickSkipped
  /\ ~ENABLED CronTick

----------------------------------------------------------------------------
(* C37 *)

\* C37: isUpdating is set exactly while the run that cron started is
\* active: the end of that run, by success or after a failure, clears it;
\* and whenever no run of cron is active the next cron tick starts one
C37_FlagNotStuck ==
  /\ isUpdating <=> Active("cron")
  /\ ~Active("cron") => (ENABLED CronTick /\ ~ENABLED CronTickSkipped)

\* a run of cron in which the read of the pool data failed has ended: the
\* token that has a pool was stored with its pool and without a price, the
\* flag is clear and the next tick starts a run
C37_Witness ==
  /\ ~isUpdating /\ ~Active("cron")
  /\ \E k \in 1..Len(geckoColl) :
       /\ geckoColl[k].contractAddress = TokenAddr(2)
       /\ geckoColl[k].pool_count > 0
       /\ geckoColl[k].price_usd = Zero
  /\ ENABLED CronTick

----------------------------------------------------------------------------
(* C38 *)

\* the step is the successful bulkWrite of the rotation pass in slot p,
\* whose operations set priority: false (lines 321-333)
RotationWrites(p) == pass[p].kind \in {"rot", "full"} /\ BulkWrite(p)

\* C38: whenever a rotation pass writes priority = false for a token, the
\* token is not in topTokens at the moment of the write, whatever ranking
\* ran since the pass selected its tokens
C38_NonPriorityWriteOutsideList ==
  [][\A p \in Passes :
       RotationWrites(p) => \A o \in pass[p].ops : ~InTop(o[1])]_vars

----------------------------------------------------------------------------
(* Bootstrap from an empty price store (tokenDataService.js, lines 215-225,
   265-356 and 376-403). *)

\* no TokenPrice document exists
PriceStoreEmpty == Priced(priceColl) = {}

\* the pass in slot p is a priority pass that found the priority list empty
\* (line 221) and is inside updateTopTokensList (line 223)
RanksForEmptyList(p) ==
  pass[p].kind = "prio" /\ pass[p].pc \in {"rankFind", "rankResume"}

\* the pass in slot p is updateNonPriorityTokens, on its own or inside
\* fullTokenUpdate, and the store answers its oldest-first query (line 291)
\* with no record
FallsBack(p) ==
  /\ pass[p].kind \in {"rot", "full"}
  /\ pass[p].pc = "tpFind"
  /\ PriceStoreEmpty
  /\ pass'[p].pc = "api"

\* C39: with a tracked token and an API that has data for every address: a
\* rotation pass that finds no price record takes the head of the tracked
\* token list as it read it, in the order of the store, and its write
\* creates price records; a
\* priority pass that finds the list empty only ranks, and issues no call
\* to the price API (a call counted meanwhile is another pass's); and once a token is tracked the price store and the
\* priority list become non-empty and a priority pass fetches prices
C39_BootstrapFromEmptyStore ==
  /\ [][\A p \in 1..LivePasses :
          /\ FallsBack(p) =>
               /\ pass'[p].buf = JsSlice(pass[p].buf, 0, pass[p].i)
               /\ pass'[p].buf = JsSlice(tokenColl, 0, Len(pass'[p].buf))
               /\ pass'[p].buf # <<>>
          /\ (pass[p].kind \in {"rot", "full"} /\ PriceStoreEmpty /\ BulkWrite(p)) =>
               /\ Priced(priceColl') = {o[1] : o \in pass[p].ops}
               /\ Priced(priceColl') # {}
          /\ (StartPriority(p) /\ NoPriorityTokens) =>
               /\ pass'[p].pc \in {"idle", "rankFind"}
               /\ UNCHANGED <<apiCallsThisMinute, issued>>
          /\ RanksForEmptyList(p) =>
               /\ pass'[p].pc \in {"idle", "rankFind", "rankResume"}
               /\ (apiCallsThisMinute' > apiCallsThisMinute \/ issued' > issued) =>
                    \E q \in 1..LivePasses \ {p} :
                       pass[q].pc # "api" /\ pass'[q].pc = "api"]_vars
  /\ (Len(tokenColl) > 0) ~> ~PriceStoreEmpty
  /\ (Len(tokenColl) > 0) ~> (Len(topTokens) > 0)
  /\ (Len(tokenColl) > 0) ~> PriorityFetchInFlight

\* the fallback has created price records, the priority list is still empty,
\* and a priority pass that found it empty is ranking the store
C39_Witness ==
  /\ booted
  /\ Len(tokenColl) > 0
  /\ ~PriceStoreEmpty
  /\ Len(topTokens) = 0
  /\ \E p \in 1..LivePasses : pass[p].kind = "prio" /\ pass[p].pc = "rankFind"

====
